---- MODULE Spec2Model ----
(***************************************************************************)
(* A model of streamlit_app.py: the slot catalogs, the slot classification *)
(* and event generation of create_calendar_events, and                     *)
(* get_first_date_on_or_after.                                             *)
(*                                                                         *)
(* Python strings are modelled as sequences of one-character strings, so   *)
(* that strip(), upper(), split() and the "in" test are computed and not   *)
(* assumed.  A date is its proleptic Gregorian ordinal (date.toordinal()). *)
(***************************************************************************)
EXTENDS Integers, Sequences, FiniteSets, TLC

\* ------------------------------------------------------------------------
\* Bounds of the model
\* ------------------------------------------------------------------------

\* Largest number of rows of a timetable (len(df)).
MaxRows == 2

\* Number of consecutive dates, beyond the first, tried as start_date when
\* get_first_date_on_or_after is examined on its own.
ProbeDays == 20

\* Longest slot field (before trimming) enumerated exhaustively when the
\* slot classification is examined on its own.
MaxSlotLen == 4

\* ------------------------------------------------------------------------
\* Python string operations
\* ------------------------------------------------------------------------

LowerLetters ==
    << "a", "b", "c", "d", "e", "f", "g", "h", "i", "j", "k", "l", "m",
       "n", "o", "p", "q", "r", "s", "t", "u", "v", "w", "x", "y", "z" >>

UpperLetters ==
    << "A", "B", "C", "D", "E", "F", "G", "H", "I", "J", "K", "L", "M",
       "N", "O", "P", "Q", "R", "S", "T", "U", "V", "W", "X", "Y", "Z" >>

Digits == << "0", "1", "2", "3", "4", "5", "6", "7", "8", "9" >>

\* A character up to U+00FF is the one-character string of itself; a
\* character beyond U+00FF, which a module cannot write, is the string
\* that names its code point: "U+0178" is the capital Y with diaeresis.

\* The characters outside ASCII that str.upper() changes, each with what
\* it makes of it (the sharp s becomes two letters), in code-point order:
\* the case mapping of Unicode 14.0.0, the one of the interpreter.
UpperSpecial ==
    {
      << "µ", << "U+039C" >> >>, << "ß", << "S", "S" >> >>,
      << "à", << "À" >> >>, << "á", << "Á" >> >>, << "â", << "Â" >> >>,
      << "ã", << "Ã" >> >>, << "ä", << "Ä" >> >>, << "å", << "Å" >> >>,
      << "æ", << "Æ" >> >>, << "ç", << "Ç" >> >>, << "è", << "È" >> >>,
      << "é", << "É" >> >>, << "ê", << "Ê" >> >>, << "ë", << "Ë" >> >>,
      << "ì", << "Ì" >> >>, << "í", << "Í" >> >>, << "î", << "Î" >> >>,
      << "ï", << "Ï" >> >>, << "ð", << "Ð" >> >>, << "ñ", << "Ñ" >> >>,
      << "ò", << "Ò" >> >>, << "ó", << "Ó" >> >>, << "ô", << "Ô" >> >>,
      << "õ", << "Õ" >> >>, << "ö", << "Ö" >> >>, << "ø", << "Ø" >> >>,
      << "ù", << "Ù" >> >>, << "ú", << "Ú" >> >>, << "û", << "Û" >> >>,
      << "ü", << "Ü" >> >>, << "ý", << "Ý" >> >>, << "þ", << "Þ" >> >>,
      << "ÿ", << "U+0178" >> >>, << "U+0101", << "U+0100" >> >>,
      << "U+0103", << "U+0102" >> >>, << "U+0105", << "U+0104" >> >>,
      << "U+0107", << "U+0106" >> >>, << "U+0109", << "U+0108" >> >>,
      << "U+010B", << "U+010A" >> >>, << "U+010D", << "U+010C" >> >>,
      << "U+010F", << "U+010E" >> >>, << "U+0111", << "U+0110" >> >>,
      << "U+0113", << "U+0112" >> >>, << "U+0115", << "U+0114" >> >>,
      << "U+0117", << "U+0116" >> >>, << "U+0119", << "U+0118" >> >>,
      << "U+011B", << "U+011A" >> >>, << "U+011D", << "U+011C" >> >>,
      << "U+011F", << "U+011E" >> >>, << "U+0121", << "U+0120" >> >>,
      << "U+0123", << "U+0122" >> >>, << "U+0125", << "U+0124" >> >>,
      << "U+0127", << "U+0126" >> >>, << "U+0129", << "U+0128" >> >>,
      << "U+012B", << "U+012A" >> >>, << "U+012D", << "U+012C" >> >>,
      << "U+012F", << "U+012E" >> >>, << "U+0131", << "I" >> >>,
      << "U+0133", << "U+0132" >> >>, << "U+0135", << "U+0134" >> >>,
      << "U+0137", << "U+0136" >> >>, << "U+013A", << "U+0139" >> >>,
      << "U+013C", << "U+013B" >> >>, << "U+013E", << "U+013D" >> >>,
      << "U+0140", << "U+013F" >> >>, << "U+0142", << "U+0141" >> >>,
      << "U+0144", << "U+0143" >> >>, << "U+0146", << "U+0145" >> >>,
      << "U+0148", << "U+0147" >> >>, << "U+0149", << "U+02BC", "N" >> >>,
      << "U+014B", << "U+014A" >> >>, << "U+014D", << "U+014C" >> >>,
      << "U+014F", << "U+014E" >> >>, << "U+0151", << "U+0150" >> >>,
      << "U+0153", << "U+0152" >> >>, << "U+0155", << "U+0154" >> >>,
      << "U+0157", << "U+0156" >> >>, << "U+0159", << "U+0158" >> >>,
      << "U+015B", << "U+015A" >> >>, << "U+015D", << "U+015C" >> >>,
      << "U+015F", << "U+015E" >> >>, << "U+0161", << "U+0160" >> >>,
      << "U+0163", << "U+0162" >> >>, << "U+0165", << "U+0164" >> >>,
      << "U+0167", << "U+0166" >> >>, << "U+0169", << "U+0168" >> >>,
      << "U+016B", << "U+016A" >> >>, << "U+016D", << "U+016C" >> >>,
      << "U+016F", << "U+016E" >> >>, << "U+0171", << "U+0170" >> >>,
      << "U+0173", << "U+0172" >> >>, << "U+0175", << "U+0174" >> >>,
      << "U+0177", << "U+0176" >> >>, << "U+017A", << "U+0179" >> >>,
      << "U+017C", << "U+017B" >> >>, << "U+017E", << "U+017D" >> >>,
      << "U+017F", << "S" >> >>, << "U+0180", << "U+0243" >> >>,
      << "U+0183", << "U+0182" >> >>, << "U+0185", << "U+0184" >> >>,
      << "U+0188", << "U+0187" >> >>, << "U+018C", << "U+018B" >> >>,
      << "U+0192", << "U+0191" >> >>, << "U+0195", << "U+01F6" >> >>,
      << "U+0199", << "U+0198" >> >>, << "U+019A", << "U+023D" >> >>,
      << "U+019E", << "U+0220" >> >>, << "U+01A1", << "U+01A0" >> >>,
      << "U+01A3", << "U+01A2" >> >>, << "U+01A5", << "U+01A4" >> >>,
      << "U+01A8", << "U+01A7" >> >>, << "U+01AD", << "U+01AC" >> >>,
      << "U+01B0", << "U+01AF" >> >>, << "U+01B4", << "U+01B3" >> >>,
      << "U+01B6", << "U+01B5" >> >>, << "U+01B9", << "U+01B8" >> >>,
      << "U+01BD", << "U+01BC" >> >>, << "U+01BF", << "U+01F7" >> >>,
      << "U+01C5", << "U+01C4" >> >>, << "U+01C6", << "U+01C4" >> >>,
      << "U+01C8", << "U+01C7" >> >>, << "U+01C9", << "U+01C7" >> >>,
      << "U+01CB", << "U+01CA" >> >>, << "U+01CC", << "U+01CA" >> >>,
      << "U+01CE", << "U+01CD" >> >>, << "U+01D0", << "U+01CF" >> >>,
      << "U+01D2", << "U+01D1" >> >>, << "U+01D4", << "U+01D3" >> >>,
      << "U+01D6", << "U+01D5" >> >>, << "U+01D8", << "U+01D7" >> >>,
      << "U+01DA", << "U+01D9" >> >>, << "U+01DC", << "U+01DB" >> >>,
      << "U+01DD", << "U+018E" >> >>, << "U+01DF", << "U+01DE" >> >>,
      << "U+01E1", << "U+01E0" >> >>, << "U+01E3", << "U+01E2" >> >>,
      << "U+01E5", << "U+01E4" >> >>, << "U+01E7", << "U+01E6" >> >>,
      << "U+01E9", << "U+01E8" >> >>, << "U+01EB", << "U+01EA" >> >>,
      << "U+01ED", << "U+01EC" >> >>, << "U+01EF", << "U+01EE" >> >>,
      << "U+01F0", << "J", "U+030C" >> >>, << "U+01F2", << "U+01F1" >> >>,
      << "U+01F3", << "U+01F1" >> >>, << "U+01F5", << "U+01F4" >> >>,
      << "U+01F9", << "U+01F8" >> >>, << "U+01FB", << "U+01FA" >> >>,
      << "U+01FD", << "U+01FC" >> >>, << "U+01FF", << "U+01FE" >> >>,
      << "U+0201", << "U+0200" >> >>, << "U+0203", << "U+0202" >> >>,
      << "U+0205", << "U+0204" >> >>, << "U+0207", << "U+0206" >> >>,
      << "U+0209", << "U+0208" >> >>, << "U+020B", << "U+020A" >> >>,
      << "U+020D", << "U+020C" >> >>, << "U+020F", << "U+020E" >> >>,
      << "U+0211", << "U+0210" >> >>, << "U+0213", << "U+0212" >> >>,
      << "U+0215", << "U+0214" >> >>, << "U+0217", << "U+0216" >> >>,
      << "U+0219", << "U+0218" >> >>, << "U+021B", << "U+021A" >> >>,
      << "U+021D", << "U+021C" >> >>, << "U+021F", << "U+021E" >> >>,
      << "U+0223", << "U+0222" >> >>, << "U+0225", << "U+0224" >> >>,
      << "U+0227", << "U+0226" >> >>, << "U+0229", << "U+0228" >> >>,
      << "U+022B", << "U+022A" >> >>, << "U+022D", << "U+022C" >> >>,
      << "U+022F", << "U+022E" >> >>, << "U+0231", << "U+0230" >> >>,
      << "U+0233", << "U+0232" >> >>, << "U+023C", << "U+023B" >> >>,
      << "U+023F", << "U+2C7E" >> >>, << "U+0240", << "U+2C7F" >> >>,
      << "U+0242", << "U+0241" >> >>, << "U+0247", << "U+0246" >> >>,
      << "U+0249", << "U+0248" >> >>, << "U+024B", << "U+024A" >> >>,
      << "U+024D", << "U+024C" >> >>, << "U+024F", << "U+024E" >> >>,
      << "U+0250", << "U+2C6F" >> >>, << "U+0251", << "U+2C6D" >> >>,
      << "U+0252", << "U+2C70" >> >>, << "U+0253", << "U+0181" >> >>,
      << "U+0254", << "U+0186" >> >>, << "U+0256", << "U+0189" >> >>,
      << "U+0257", << "U+018A" >> >>, << "U+0259", << "U+018F" >> >>,
      << "U+025B", << "U+0190" >> >>, << "U+025C", << "U+A7AB" >> >>,
      << "U+0260", << "U+0193" >> >>, << "U+0261", << "U+A7AC" >> >>,
      << "U+0263", << "U+0194" >> >>, << "U+0265", << "U+A78D" >> >>,
      << "U+0266", << "U+A7AA" >> >>, << "U+0268", << "U+0197" >> >>,
      << "U+0269", << "U+0196" >> >>, << "U+026A", << "U+A7AE" >> >>,
      << "U+026B", << "U+2C62" >> >>, << "U+026C", << "U+A7AD" >> >>,
      << "U+026F", << "U+019C" >> >>, << "U+0271", << "U+2C6E" >> >>,
      << "U+0272", << "U+019D" >> >>, << "U+0275", << "U+019F" >> >>,
      << "U+027D", << "U+2C64" >> >>, << "U+0280", << "U+01A6" >> >>,
      << "U+0282", << "U+A7C5" >> >>, << "U+0283", << "U+01A9" >> >>,
      << "U+0287", << "U+A7B1" >> >>, << "U+0288", << "U+01AE" >> >>,
      << "U+0289", << "U+0244" >> >>, << "U+028A", << "U+01B1" >> >>,
      << "U+028B", << "U+01B2" >> >>, << "U+028C", << "U+0245" >> >>,
      << "U+0292", << "U+01B7" >> >>, << "U+029D", << "U+A7B2" >> >>,
      << "U+029E", << "U+A7B0" >> >>, << "U+0345", << "U+0399" >> >>,
      << "U+0371", << "U+0370" >> >>, << "U+0373", << "U+0372" >> >>,
      << "U+0377", << "U+0376" >> >>, << "U+037B", << "U+03FD" >> >>,
      << "U+037C", << "U+03FE" >> >>, << "U+037D", << "U+03FF" >> >>,
      << "U+0390", << "U+0399", "U+0308", "U+0301" >> >>,
      << "U+03AC", << "U+0386" >> >>, << "U+03AD", << "U+0388" >> >>,
      << "U+03AE", << "U+0389" >> >>, << "U+03AF", << "U+038A" >> >>,
      << "U+03B0", << "U+03A5", "U+0308", "U+0301" >> >>,
      << "U+03B1", << "U+0391" >> >>, << "U+03B2", << "U+0392" >> >>,
      << "U+03B3", << "U+0393" >> >>, << "U+03B4", << "U+0394" >> >>,
      << "U+03B5", << "U+0395" >> >>, << "U+03B6", << "U+0396" >> >>,
      << "U+03B7", << "U+0397" >> >>, << "U+03B8", << "U+0398" >> >>,
      << "U+03B9", << "U+0399" >> >>, << "U+03BA", << "U+039A" >> >>,
      << "U+03BB", << "U+039B" >> >>, << "U+03BC", << "U+039C" >> >>,
      << "U+03BD", << "U+039D" >> >>, << "U+03BE", << "U+039E" >> >>,
      << "U+03BF", << "U+039F" >> >>, << "U+03C0", << "U+03A0" >> >>,
      << "U+03C1", << "U+03A1" >> >>, << "U+03C2", << "U+03A3" >> >>,
      << "U+03C3", << "U+03A3" >> >>, << "U+03C4", << "U+03A4" >> >>,
      << "U+03C5", << "U+03A5" >> >>, << "U+03C6", << "U+03A6" >> >>,
      << "U+03C7", << "U+03A7" >> >>, << "U+03C8", << "U+03A8" >> >>,
      << "U+03C9", << "U+03A9" >> >>, << "U+03CA", << "U+03AA" >> >>,
      << "U+03CB", << "U+03AB" >> >>, << "U+03CC", << "U+038C" >> >>,
      << "U+03CD", << "U+038E" >> >>, << "U+03CE", << "U+038F" >> >>,
      << "U+03D0", << "U+0392" >> >>, << "U+03D1", << "U+0398" >> >>,
      << "U+03D5", << "U+03A6" >> >>, << "U+03D6", << "U+03A0" >> >>,
      << "U+03D7", << "U+03CF" >> >>, << "U+03D9", << "U+03D8" >> >>,
      << "U+03DB", << "U+03DA" >> >>, << "U+03DD", << "U+03DC" >> >>,
      << "U+03DF", << "U+03DE" >> >>, << "U+03E1", << "U+03E0" >> >>,
      << "U+03E3", << "U+03E2" >> >>, << "U+03E5", << "U+03E4" >> >>,
      << "U+03E7", << "U+03E6" >> >>, << "U+03E9", << "U+03E8" >> >>,
      << "U+03EB", << "U+03EA" >> >>, << "U+03ED", << "U+03EC" >> >>,
      << "U+03EF", << "U+03EE" >> >>, << "U+03F0", << "U+039A" >> >>,
      << "U+03F1", << "U+03A1" >> >>, << "U+03F2", << "U+03F9" >> >>,
      << "U+03F3", << "U+037F" >> >>, << "U+03F5", << "U+0395" >> >>,
      << "U+03F8", << "U+03F7" >> >>, << "U+03FB", << "U+03FA" >> >>,
      << "U+0430", << "U+0410" >> >>, << "U+0431", << "U+0411" >> >>,
      << "U+0432", << "U+0412" >> >>, << "U+0433", << "U+0413" >> >>,
      << "U+0434", << "U+0414" >> >>, << "U+0435", << "U+0415" >> >>,
      << "U+0436", << "U+0416" >> >>, << "U+0437", << "U+0417" >> >>,
      << "U+0438", << "U+0418" >> >>, << "U+0439", << "U+0419" >> >>,
      << "U+043A", << "U+041A" >> >>, << "U+043B", << "U+041B" >> >>,
      << "U+043C", << "U+041C" >> >>, << "U+043D", << "U+041D" >> >>,
      << "U+043E", << "U+041E" >> >>, << "U+043F", << "U+041F" >> >>,
      << "U+0440", << "U+0420" >> >>, << "U+0441", << "U+0421" >> >>,
      << "U+0442", << "U+0422" >> >>, << "U+0443", << "U+0423" >> >>,
      << "U+0444", << "U+0424" >> >>, << "U+0445", << "U+0425" >> >>,
      << "U+0446", << "U+0426" >> >>, << "U+0447", << "U+0427" >> >>,
      << "U+0448", << "U+0428" >> >>, << "U+0449", << "U+0429" >> >>,
      << "U+044A", << "U+042A" >> >>, << "U+044B", << "U+042B" >> >>,
      << "U+044C", << "U+042C" >> >>, << "U+044D", << "U+042D" >> >>,
      << "U+044E", << "U+042E" >> >>, << "U+044F", << "U+042F" >> >>,
      << "U+0450", << "U+0400" >> >>, << "U+0451", << "U+0401" >> >>,
      << "U+0452", << "U+0402" >> >>, << "U+0453", << "U+0403" >> >>,
      << "U+0454", << "U+0404" >> >>, << "U+0455", << "U+0405" >> >>,
      << "U+0456", << "U+0406" >> >>, << "U+0457", << "U+0407" >> >>,
      << "U+0458", << "U+0408" >> >>, << "U+0459", << "U+0409" >> >>,
      << "U+045A", << "U+040A" >> >>, << "U+045B", << "U+040B" >> >>,
      << "U+045C", << "U+040C" >> >>, << "U+045D", << "U+040D" >> >>,
      << "U+045E", << "U+040E" >> >>, << "U+045F", << "U+040F" >> >>,
      << "U+0461", << "U+0460" >> >>, << "U+0463", << "U+0462" >> >>,
      << "U+0465", << "U+0464" >> >>, << "U+0467", << "U+0466" >> >>,
      << "U+0469", << "U+0468" >> >>, << "U+046B", << "U+046A" >> >>,
      << "U+046D", << "U+046C" >> >>, << "U+046F", << "U+046E" >> >>,
      << "U+0471", << "U+0470" >> >>, << "U+0473", << "U+0472" >> >>,
      << "U+0475", << "U+0474" >> >>, << "U+0477", << "U+0476" >> >>,
      << "U+0479", << "U+0478" >> >>, << "U+047B", << "U+047A" >> >>,
      << "U+047D", << "U+047C" >> >>, << "U+047F", << "U+047E" >> >>,
      << "U+0481", << "U+0480" >> >>, << "U+048B", << "U+048A" >> >>,
      << "U+048D", << "U+048C" >> >>, << "U+048F", << "U+048E" >> >>,
      << "U+0491", << "U+0490" >> >>, << "U+0493", << "U+0492" >> >>,
      << "U+0495", << "U+0494" >> >>, << "U+0497", << "U+0496" >> >>,
      << "U+0499", << "U+0498" >> >>, << "U+049B", << "U+049A" >> >>,
      << "U+049D", << "U+049C" >> >>, << "U+049F", << "U+049E" >> >>,
      << "U+04A1", << "U+04A0" >> >>, << "U+04A3", << "U+04A2" >> >>,
      << "U+04A5", << "U+04A4" >> >>, << "U+04A7", << "U+04A6" >> >>,
      << "U+04A9", << "U+04A8" >> >>, << "U+04AB", << "U+04AA" >> >>,
      << "U+04AD", << "U+04AC" >> >>, << "U+04AF", << "U+04AE" >> >>,
      << "U+04B1", << "U+04B0" >> >>, << "U+04B3", << "U+04B2" >> >>,
      << "U+04B5", << "U+04B4" >> >>, << "U+04B7", << "U+04B6" >> >>,
      << "U+04B9", << "U+04B8" >> >>, << "U+04BB", << "U+04BA" >> >>,
      << "U+04BD", << "U+04BC" >> >>, << "U+04BF", << "U+04BE" >> >>,
      << "U+04C2", << "U+04C1" >> >>, << "U+04C4", << "U+04C3" >> >>,
      << "U+04C6", << "U+04C5" >> >>, << "U+04C8", << "U+04C7" >> >>,
      << "U+04CA", << "U+04C9" >> >>, << "U+04CC", << "U+04CB" >> >>,
      << "U+04CE", << "U+04CD" >> >>, << "U+04CF", << "U+04C0" >> >>,
      << "U+04D1", << "U+04D0" >> >>, << "U+04D3", << "U+04D2" >> >>,
      << "U+04D5", << "U+04D4" >> >>, << "U+04D7", << "U+04D6" >> >>,
      << "U+04D9", << "U+04D8" >> >>, << "U+04DB", << "U+04DA" >> >>,
      << "U+04DD", << "U+04DC" >> >>, << "U+04DF", << "U+04DE" >> >>,
      << "U+04E1", << "U+04E0" >> >>, << "U+04E3", << "U+04E2" >> >>,
      << "U+04E5", << "U+04E4" >> >>, << "U+04E7", << "U+04E6" >> >>,
      << "U+04E9", << "U+04E8" >> >>, << "U+04EB", << "U+04EA" >> >>,
      << "U+04ED", << "U+04EC" >> >>, << "U+04EF", << "U+04EE" >> >>,
      << "U+04F1", << "U+04F0" >> >>, << "U+04F3", << "U+04F2" >> >>,
      << "U+04F5", << "U+04F4" >> >>, << "U+04F7", << "U+04F6" >> >>,
      << "U+04F9", << "U+04F8" >> >>, << "U+04FB", << "U+04FA" >> >>,
      << "U+04FD", << "U+04FC" >> >>, << "U+04FF", << "U+04FE" >> >>,
      << "U+0501", << "U+0500" >> >>, << "U+0503", << "U+0502" >> >>,
      << "U+0505", << "U+0504" >> >>, << "U+0507", << "U+0506" >> >>,
      << "U+0509", << "U+0508" >> >>, << "U+050B", << "U+050A" >> >>,
      << "U+050D", << "U+050C" >> >>, << "U+050F", << "U+050E" >> >>,
      << "U+0511", << "U+0510" >> >>, << "U+0513", << "U+0512" >> >>,
      << "U+0515", << "U+0514" >> >>, << "U+0517", << "U+0516" >> >>,
      << "U+0519", << "U+0518" >> >>, << "U+051B", << "U+051A" >> >>,
      << "U+051D", << "U+051C" >> >>, << "U+051F", << "U+051E" >> >>,
      << "U+0521", << "U+0520" >> >>, << "U+0523", << "U+0522" >> >>,
      << "U+0525", << "U+0524" >> >>, << "U+0527", << "U+0526" >> >>,
      << "U+0529", << "U+0528" >> >>, << "U+052B", << "U+052A" >> >>,
      << "U+052D", << "U+052C" >> >>, << "U+052F", << "U+052E" >> >>,
      << "U+0561", << "U+0531" >> >>, << "U+0562", << "U+0532" >> >>,
      << "U+0563", << "U+0533" >> >>, << "U+0564", << "U+0534" >> >>,
      << "U+0565", << "U+0535" >> >>, << "U+0566", << "U+0536" >> >>,
      << "U+0567", << "U+0537" >> >>, << "U+0568", << "U+0538" >> >>,
      << "U+0569", << "U+0539" >> >>, << "U+056A", << "U+053A" >> >>,
      << "U+056B", << "U+053B" >> >>, << "U+056C", << "U+053C" >> >>,
      << "U+056D", << "U+053D" >> >>, << "U+056E", << "U+053E" >> >>,
      << "U+056F", << "U+053F" >> >>, << "U+0570", << "U+0540" >> >>,
      << "U+0571", << "U+0541" >> >>, << "U+0572", << "U+0542" >> >>,
      << "U+0573", << "U+0543" >> >>, << "U+0574", << "U+0544" >> >>,
      << "U+0575", << "U+0545" >> >>, << "U+0576", << "U+0546" >> >>,
      << "U+0577", << "U+0547" >> >>, << "U+0578", << "U+0548" >> >>,
      << "U+0579", << "U+0549" >> >>, << "U+057A", << "U+054A" >> >>,
      << "U+057B", << "U+054B" >> >>, << "U+057C", << "U+054C" >> >>,
      << "U+057D", << "U+054D" >> >>, << "U+057E", << "U+054E" >> >>,
      << "U+057F", << "U+054F" >> >>, << "U+0580", << "U+0550" >> >>,
      << "U+0581", << "U+0551" >> >>, << "U+0582", << "U+0552" >> >>,
      << "U+0583", << "U+0553" >> >>, << "U+0584", << "U+0554" >> >>,
      << "U+0585", << "U+0555" >> >>, << "U+0586", << "U+0556" >> >>,
      << "U+0587", << "U+0535", "U+0552" >> >>,
      << "U+10D0", << "U+1C90" >> >>, << "U+10D1", << "U+1C91" >> >>,
      << "U+10D2", << "U+1C92" >> >>, << "U+10D3", << "U+1C93" >> >>,
      << "U+10D4", << "U+1C94" >> >>, << "U+10D5", << "U+1C95" >> >>,
      << "U+10D6", << "U+1C96" >> >>, << "U+10D7", << "U+1C97" >> >>,
      << "U+10D8", << "U+1C98" >> >>, << "U+10D9", << "U+1C99" >> >>,
      << "U+10DA", << "U+1C9A" >> >>, << "U+10DB", << "U+1C9B" >> >>,
      << "U+10DC", << "U+1C9C" >> >>, << "U+10DD", << "U+1C9D" >> >>,
      << "U+10DE", << "U+1C9E" >> >>, << "U+10DF", << "U+1C9F" >> >>,
      << "U+10E0", << "U+1CA0" >> >>, << "U+10E1", << "U+1CA1" >> >>,
      << "U+10E2", << "U+1CA2" >> >>, << "U+10E3", << "U+1CA3" >> >>,
      << "U+10E4", << "U+1CA4" >> >>, << "U+10E5", << "U+1CA5" >> >>,
      << "U+10E6", << "U+1CA6" >> >>, << "U+10E7", << "U+1CA7" >> >>,
      << "U+10E8", << "U+1CA8" >> >>, << "U+10E9", << "U+1CA9" >> >>,
      << "U+10EA", << "U+1CAA" >> >>, << "U+10EB", << "U+1CAB" >> >>,
      << "U+10EC", << "U+1CAC" >> >>, << "U+10ED", << "U+1CAD" >> >>,
      << "U+10EE", << "U+1CAE" >> >>, << "U+10EF", << "U+1CAF" >> >>,
      << "U+10F0", << "U+1CB0" >> >>, << "U+10F1", << "U+1CB1" >> >>,
      << "U+10F2", << "U+1CB2" >> >>, << "U+10F3", << "U+1CB3" >> >>,
      << "U+10F4", << "U+1CB4" >> >>, << "U+10F5", << "U+1CB5" >> >>,
      << "U+10F6", << "U+1CB6" >> >>, << "U+10F7", << "U+1CB7" >> >>,
      << "U+10F8", << "U+1CB8" >> >>, << "U+10F9", << "U+1CB9" >> >>,
      << "U+10FA", << "U+1CBA" >> >>, << "U+10FD", << "U+1CBD" >> >>,
      << "U+10FE", << "U+1CBE" >> >>, << "U+10FF", << "U+1CBF" >> >>,
      << "U+13F8", << "U+13F0" >> >>, << "U+13F9", << "U+13F1" >> >>,
      << "U+13FA", << "U+13F2" >> >>, << "U+13FB", << "U+13F3" >> >>,
      << "U+13FC", << "U+13F4" >> >>, << "U+13FD", << "U+13F5" >> >>,
      << "U+1C80", << "U+0412" >> >>, << "U+1C81", << "U+0414" >> >>,
      << "U+1C82", << "U+041E" >> >>, << "U+1C83", << "U+0421" >> >>,
      << "U+1C84", << "U+0422" >> >>, << "U+1C85", << "U+0422" >> >>,
      << "U+1C86", << "U+042A" >> >>, << "U+1C87", << "U+0462" >> >>,
      << "U+1C88", << "U+A64A" >> >>, << "U+1D79", << "U+A77D" >> >>,
      << "U+1D7D", << "U+2C63" >> >>, << "U+1D8E", << "U+A7C6" >> >>,
      << "U+1E01", << "U+1E00" >> >>, << "U+1E03", << "U+1E02" >> >>,
      << "U+1E05", << "U+1E04" >> >>, << "U+1E07", << "U+1E06" >> >>,
      << "U+1E09", << "U+1E08" >> >>, << "U+1E0B", << "U+1E0A" >> >>,
      << "U+1E0D", << "U+1E0C" >> >>, << "U+1E0F", << "U+1E0E" >> >>,
      << "U+1E11", << "U+1E10" >> >>, << "U+1E13", << "U+1E12" >> >>,
      << "U+1E15", << "U+1E14" >> >>, << "U+1E17", << "U+1E16" >> >>,
      << "U+1E19", << "U+1E18" >> >>, << "U+1E1B", << "U+1E1A" >> >>,
      << "U+1E1D", << "U+1E1C" >> >>, << "U+1E1F", << "U+1E1E" >> >>,
      << "U+1E21", << "U+1E20" >> >>, << "U+1E23", << "U+1E22" >> >>,
      << "U+1E25", << "U+1E24" >> >>, << "U+1E27", << "U+1E26" >> >>,
      << "U+1E29", << "U+1E28" >> >>, << "U+1E2B", << "U+1E2A" >> >>,
      << "U+1E2D", << "U+1E2C" >> >>, << "U+1E2F", << "U+1E2E" >> >>,
      << "U+1E31", << "U+1E30" >> >>, << "U+1E33", << "U+1E32" >> >>,
      << "U+1E35", << "U+1E34" >> >>, << "U+1E37", << "U+1E36" >> >>,
      << "U+1E39", << "U+1E38" >> >>, << "U+1E3B", << "U+1E3A" >> >>,
      << "U+1E3D", << "U+1E3C" >> >>, << "U+1E3F", << "U+1E3E" >> >>,
      << "U+1E41", << "U+1E40" >> >>, << "U+1E43", << "U+1E42" >> >>,
      << "U+1E45", << "U+1E44" >> >>, << "U+1E47", << "U+1E46" >> >>,
      << "U+1E49", << "U+1E48" >> >>, << "U+1E4B", << "U+1E4A" >> >>,
      << "U+1E4D", << "U+1E4C" >> >>, << "U+1E4F", << "U+1E4E" >> >>,
      << "U+1E51", << "U+1E50" >> >>, << "U+1E53", << "U+1E52" >> >>,
      << "U+1E55", << "U+1E54" >> >>, << "U+1E57", << "U+1E56" >> >>,
      << "U+1E59", << "U+1E58" >> >>, << "U+1E5B", << "U+1E5A" >> >>,
      << "U+1E5D", << "U+1E5C" >> >>, << "U+1E5F", << "U+1E5E" >> >>,
      << "U+1E61", << "U+1E60" >> >>, << "U+1E63", << "U+1E62" >> >>,
      << "U+1E65", << "U+1E64" >> >>, << "U+1E67", << "U+1E66" >> >>,
      << "U+1E69", << "U+1E68" >> >>, << "U+1E6B", << "U+1E6A" >> >>,
      << "U+1E6D", << "U+1E6C" >> >>, << "U+1E6F", << "U+1E6E" >> >>,
      << "U+1E71", << "U+1E70" >> >>, << "U+1E73", << "U+1E72" >> >>,
      << "U+1E75", << "U+1E74" >> >>, << "U+1E77", << "U+1E76" >> >>,
      << "U+1E79", << "U+1E78" >> >>, << "U+1E7B", << "U+1E7A" >> >>,
      << "U+1E7D", << "U+1E7C" >> >>, << "U+1E7F", << "U+1E7E" >> >>,
      << "U+1E81", << "U+1E80" >> >>, << "U+1E83", << "U+1E82" >> >>,
      << "U+1E85", << "U+1E84" >> >>, << "U+1E87", << "U+1E86" >> >>,
      << "U+1E89", << "U+1E88" >> >>, << "U+1E8B", << "U+1E8A" >> >>,
      << "U+1E8D", << "U+1E8C" >> >>, << "U+1E8F", << "U+1E8E" >> >>,
      << "U+1E91", << "U+1E90" >> >>, << "U+1E93", << "U+1E92" >> >>,
      << "U+1E95", << "U+1E94" >> >>, << "U+1E96", << "H", "U+0331" >> >>,
      << "U+1E97", << "T", "U+0308" >> >>,
      << "U+1E98", << "W", "U+030A" >> >>,
      << "U+1E99", << "Y", "U+030A" >> >>,
      << "U+1E9A", << "A", "U+02BE" >> >>, << "U+1E9B", << "U+1E60" >> >>,
      << "U+1EA1", << "U+1EA0" >> >>, << "U+1EA3", << "U+1EA2" >> >>,
      << "U+1EA5", << "U+1EA4" >> >>, << "U+1EA7", << "U+1EA6" >> >>,
      << "U+1EA9", << "U+1EA8" >> >>, << "U+1EAB", << "U+1EAA" >> >>,
      << "U+1EAD", << "U+1EAC" >> >>, << "U+1EAF", << "U+1EAE" >> >>,
      << "U+1EB1", << "U+1EB0" >> >>, << "U+1EB3", << "U+1EB2" >> >>,
      << "U+1EB5", << "U+1EB4" >> >>, << "U+1EB7", << "U+1EB6" >> >>,
      << "U+1EB9", << "U+1EB8" >> >>, << "U+1EBB", << "U+1EBA" >> >>,
      << "U+1EBD", << "U+1EBC" >> >>, << "U+1EBF", << "U+1EBE" >> >>,
      << "U+1EC1", << "U+1EC0" >> >>, << "U+1EC3", << "U+1EC2" >> >>,
      << "U+1EC5", << "U+1EC4" >> >>, << "U+1EC7", << "U+1EC6" >> >>,
      << "U+1EC9", << "U+1EC8" >> >>, << "U+1ECB", << "U+1ECA" >> >>,
      << "U+1ECD", << "U+1ECC" >> >>, << "U+1ECF", << "U+1ECE" >> >>,
      << "U+1ED1", << "U+1ED0" >> >>, << "U+1ED3", << "U+1ED2" >> >>,
      << "U+1ED5", << "U+1ED4" >> >>, << "U+1ED7", << "U+1ED6" >> >>,
      << "U+1ED9", << "U+1ED8" >> >>, << "U+1EDB", << "U+1EDA" >> >>,
      << "U+1EDD", << "U+1EDC" >> >>, << "U+1EDF", << "U+1EDE" >> >>,
      << "U+1EE1", << "U+1EE0" >> >>, << "U+1EE3", << "U+1EE2" >> >>,
      << "U+1EE5", << "U+1EE4" >> >>, << "U+1EE7", << "U+1EE6" >> >>,
      << "U+1EE9", << "U+1EE8" >> >>, << "U+1EEB", << "U+1EEA" >> >>,
      << "U+1EED", << "U+1EEC" >> >>, << "U+1EEF", << "U+1EEE" >> >>,
      << "U+1EF1", << "U+1EF0" >> >>, << "U+1EF3", << "U+1EF2" >> >>,
      << "U+1EF5", << "U+1EF4" >> >>, << "U+1EF7", << "U+1EF6" >> >>,
      << "U+1EF9", << "U+1EF8" >> >>, << "U+1EFB", << "U+1EFA" >> >>,
      << "U+1EFD", << "U+1EFC" >> >>, << "U+1EFF", << "U+1EFE" >> >>,
      << "U+1F00", << "U+1F08" >> >>, << "U+1F01", << "U+1F09" >> >>,
      << "U+1F02", << "U+1F0A" >> >>, << "U+1F03", << "U+1F0B" >> >>,
      << "U+1F04", << "U+1F0C" >> >>, << "U+1F05", << "U+1F0D" >> >>,
      << "U+1F06", << "U+1F0E" >> >>, << "U+1F07", << "U+1F0F" >> >>,
      << "U+1F10", << "U+1F18" >> >>, << "U+1F11", << "U+1F19" >> >>,
      << "U+1F12", << "U+1F1A" >> >>, << "U+1F13", << "U+1F1B" >> >>,
      << "U+1F14", << "U+1F1C" >> >>, << "U+1F15", << "U+1F1D" >> >>,
      << "U+1F20", << "U+1F28" >> >>, << "U+1F21", << "U+1F29" >> >>,
      << "U+1F22", << "U+1F2A" >> >>, << "U+1F23", << "U+1F2B" >> >>,
      << "U+1F24", << "U+1F2C" >> >>, << "U+1F25", << "U+1F2D" >> >>,
      << "U+1F26", << "U+1F2E" >> >>, << "U+1F27", << "U+1F2F" >> >>,
      << "U+1F30", << "U+1F38" >> >>, << "U+1F31", << "U+1F39" >> >>,
      << "U+1F32", << "U+1F3A" >> >>, << "U+1F33", << "U+1F3B" >> >>,
      << "U+1F34", << "U+1F3C" >> >>, << "U+1F35", << "U+1F3D" >> >>,
      << "U+1F36", << "U+1F3E" >> >>, << "U+1F37", << "U+1F3F" >> >>,
      << "U+1F40", << "U+1F48" >> >>, << "U+1F41", << "U+1F49" >> >>,
      << "U+1F42", << "U+1F4A" >> >>, << "U+1F43", << "U+1F4B" >> >>,
      << "U+1F44", << "U+1F4C" >> >>, << "U+1F45", << "U+1F4D" >> >>,
      << "U+1F50", << "U+03A5", "U+0313" >> >>,
      << "U+1F51", << "U+1F59" >> >>,
      << "U+1F52", << "U+03A5", "U+0313", "U+0300" >> >>,
      << "U+1F53", << "U+1F5B" >> >>,
      << "U+1F54", << "U+03A5", "U+0313", "U+0301" >> >>,
      << "U+1F55", << "U+1F5D" >> >>,
      << "U+1F56", << "U+03A5", "U+0313", "U+0342" >> >>,
      << "U+1F57", << "U+1F5F" >> >>, << "U+1F60", << "U+1F68" >> >>,
      << "U+1F61", << "U+1F69" >> >>, << "U+1F62", << "U+1F6A" >> >>,
      << "U+1F63", << "U+1F6B" >> >>, << "U+1F64", << "U+1F6C" >> >>,
      << "U+1F65", << "U+1F6D" >> >>, << "U+1F66", << "U+1F6E" >> >>,
      << "U+1F67", << "U+1F6F" >> >>, << "U+1F70", << "U+1FBA" >> >>,
      << "U+1F71", << "U+1FBB" >> >>, << "U+1F72", << "U+1FC8" >> >>,
      << "U+1F73", << "U+1FC9" >> >>, << "U+1F74", << "U+1FCA" >> >>,
      << "U+1F75", << "U+1FCB" >> >>, << "U+1F76", << "U+1FDA" >> >>,
      << "U+1F77", << "U+1FDB" >> >>, << "U+1F78", << "U+1FF8" >> >>,
      << "U+1F79", << "U+1FF9" >> >>, << "U+1F7A", << "U+1FEA" >> >>,
      << "U+1F7B", << "U+1FEB" >> >>, << "U+1F7C", << "U+1FFA" >> >>,
      << "U+1F7D", << "U+1FFB" >> >>,
      << "U+1F80", << "U+1F08", "U+0399" >> >>,
      << "U+1F81", << "U+1F09", "U+0399" >> >>,
      << "U+1F82", << "U+1F0A", "U+0399" >> >>,
      << "U+1F83", << "U+1F0B", "U+0399" >> >>,
      << "U+1F84", << "U+1F0C", "U+0399" >> >>,
      << "U+1F85", << "U+1F0D", "U+0399" >> >>,
      << "U+1F86", << "U+1F0E", "U+0399" >> >>,
      << "U+1F87", << "U+1F0F", "U+0399" >> >>,
      << "U+1F88", << "U+1F08", "U+0399" >> >>,
      << "U+1F89", << "U+1F09", "U+0399" >> >>,
      << "U+1F8A", << "U+1F0A", "U+0399" >> >>,
      << "U+1F8B", << "U+1F0B", "U+0399" >> >>,
      << "U+1F8C", << "U+1F0C", "U+0399" >> >>,
      << "U+1F8D", << "U+1F0D", "U+0399" >> >>,
      << "U+1F8E", << "U+1F0E", "U+0399" >> >>,
      << "U+1F8F", << "U+1F0F", "U+0399" >> >>,
      << "U+1F90", << "U+1F28", "U+0399" >> >>,
      << "U+1F91", << "U+1F29", "U+0399" >> >>,
      << "U+1F92", << "U+1F2A", "U+0399" >> >>,
      << "U+1F93", << "U+1F2B", "U+0399" >> >>,
      << "U+1F94", << "U+1F2C", "U+0399" >> >>,
      << "U+1F95", << "U+1F2D", "U+0399" >> >>,
      << "U+1F96", << "U+1F2E", "U+0399" >> >>,
      << "U+1F97", << "U+1F2F", "U+0399" >> >>,
      << "U+1F98", << "U+1F28", "U+0399" >> >>,
      << "U+1F99", << "U+1F29", "U+0399" >> >>,
      << "U+1F9A", << "U+1F2A", "U+0399" >> >>,
      << "U+1F9B", << "U+1F2B", "U+0399" >> >>,
      << "U+1F9C", << "U+1F2C", "U+0399" >> >>,
      << "U+1F9D", << "U+1F2D", "U+0399" >> >>,
      << "U+1F9E", << "U+1F2E", "U+0399" >> >>,
      << "U+1F9F", << "U+1F2F", "U+0399" >> >>,
      << "U+1FA0", << "U+1F68", "U+0399" >> >>,
      << "U+1FA1", << "U+1F69", "U+0399" >> >>,
      << "U+1FA2", << "U+1F6A", "U+0399" >> >>,
      << "U+1FA3", << "U+1F6B", "U+0399" >> >>,
      << "U+1FA4", << "U+1F6C", "U+0399" >> >>,
      << "U+1FA5", << "U+1F6D", "U+0399" >> >>,
      << "U+1FA6", << "U+1F6E", "U+0399" >> >>,
      << "U+1FA7", << "U+1F6F", "U+0399" >> >>,
      << "U+1FA8", << "U+1F68", "U+0399" >> >>,
      << "U+1FA9", << "U+1F69", "U+0399" >> >>,
      << "U+1FAA", << "U+1F6A", "U+0399" >> >>,
      << "U+1FAB", << "U+1F6B", "U+0399" >> >>,
      << "U+1FAC", << "U+1F6C", "U+0399" >> >>,
      << "U+1FAD", << "U+1F6D", "U+0399" >> >>,
      << "U+1FAE", << "U+1F6E", "U+0399" >> >>,
      << "U+1FAF", << "U+1F6F", "U+0399" >> >>,
      << "U+1FB0", << "U+1FB8" >> >>, << "U+1FB1", << "U+1FB9" >> >>,
      << "U+1FB2", << "U+1FBA", "U+0399" >> >>,
      << "U+1FB3", << "U+0391", "U+0399" >> >>,
      << "U+1FB4", << "U+0386", "U+0399" >> >>,
      << "U+1FB6", << "U+0391", "U+0342" >> >>,
      << "U+1FB7", << "U+0391", "U+0342", "U+0399" >> >>,
      << "U+1FBC", << "U+0391", "U+0399" >> >>,
      << "U+1FBE", << "U+0399" >> >>,
      << "U+1FC2", << "U+1FCA", "U+0399" >> >>,
      << "U+1FC3", << "U+0397", "U+0399" >> >>,
      << "U+1FC4", << "U+0389", "U+0399" >> >>,
      << "U+1FC6", << "U+0397", "U+0342" >> >>,
      << "U+1FC7", << "U+0397", "U+0342", "U+0399" >> >>,
      << "U+1FCC", << "U+0397", "U+0399" >> >>,
      << "U+1FD0", << "U+1FD8" >> >>, << "U+1FD1", << "U+1FD9" >> >>,
      << "U+1FD2", << "U+0399", "U+0308", "U+0300" >> >>,
      << "U+1FD3", << "U+0399", "U+0308", "U+0301" >> >>,
      << "U+1FD6", << "U+0399", "U+0342" >> >>,
      << "U+1FD7", << "U+0399", "U+0308", "U+0342" >> >>,
      << "U+1FE0", << "U+1FE8" >> >>, << "U+1FE1", << "U+1FE9" >> >>,
      << "U+1FE2", << "U+03A5", "U+0308", "U+0300" >> >>,
      << "U+1FE3", << "U+03A5", "U+0308", "U+0301" >> >>,
      << "U+1FE4", << "U+03A1", "U+0313" >> >>,
      << "U+1FE5", << "U+1FEC" >> >>,
      << "U+1FE6", << "U+03A5", "U+0342" >> >>,
      << "U+1FE7", << "U+03A5", "U+0308", "U+0342" >> >>,
      << "U+1FF2", << "U+1FFA", "U+0399" >> >>,
      << "U+1FF3", << "U+03A9", "U+0399" >> >>,
      << "U+1FF4", << "U+038F", "U+0399" >> >>,
      << "U+1FF6", << "U+03A9", "U+0342" >> >>,
      << "U+1FF7", << "U+03A9", "U+0342", "U+0399" >> >>,
      << "U+1FFC", << "U+03A9", "U+0399" >> >>,
      << "U+214E", << "U+2132" >> >>, << "U+2170", << "U+2160" >> >>,
      << "U+2171", << "U+2161" >> >>, << "U+2172", << "U+2162" >> >>,
      << "U+2173", << "U+2163" >> >>, << "U+2174", << "U+2164" >> >>,
      << "U+2175", << "U+2165" >> >>, << "U+2176", << "U+2166" >> >>,
      << "U+2177", << "U+2167" >> >>, << "U+2178", << "U+2168" >> >>,
      << "U+2179", << "U+2169" >> >>, << "U+217A", << "U+216A" >> >>,
      << "U+217B", << "U+216B" >> >>, << "U+217C", << "U+216C" >> >>,
      << "U+217D", << "U+216D" >> >>, << "U+217E", << "U+216E" >> >>,
      << "U+217F", << "U+216F" >> >>, << "U+2184", << "U+2183" >> >>,
      << "U+24D0", << "U+24B6" >> >>, << "U+24D1", << "U+24B7" >> >>,
      << "U+24D2", << "U+24B8" >> >>, << "U+24D3", << "U+24B9" >> >>,
      << "U+24D4", << "U+24BA" >> >>, << "U+24D5", << "U+24BB" >> >>,
      << "U+24D6", << "U+24BC" >> >>, << "U+24D7", << "U+24BD" >> >>,
      << "U+24D8", << "U+24BE" >> >>, << "U+24D9", << "U+24BF" >> >>,
      << "U+24DA", << "U+24C0" >> >>, << "U+24DB", << "U+24C1" >> >>,
      << "U+24DC", << "U+24C2" >> >>, << "U+24DD", << "U+24C3" >> >>,
      << "U+24DE", << "U+24C4" >> >>, << "U+24DF", << "U+24C5" >> >>,
      << "U+24E0", << "U+24C6" >> >>, << "U+24E1", << "U+24C7" >> >>,
      << "U+24E2", << "U+24C8" >> >>, << "U+24E3", << "U+24C9" >> >>,
      << "U+24E4", << "U+24CA" >> >>, << "U+24E5", << "U+24CB" >> >>,
      << "U+24E6", << "U+24CC" >> >>, << "U+24E7", << "U+24CD" >> >>,
      << "U+24E8", << "U+24CE" >> >>, << "U+24E9", << "U+24CF" >> >>,
      << "U+2C30", << "U+2C00" >> >>, << "U+2C31", << "U+2C01" >> >>,
      << "U+2C32", << "U+2C02" >> >>, << "U+2C33", << "U+2C03" >> >>,
      << "U+2C34", << "U+2C04" >> >>, << "U+2C35", << "U+2C05" >> >>,
      << "U+2C36", << "U+2C06" >> >>, << "U+2C37", << "U+2C07" >> >>,
      << "U+2C38", << "U+2C08" >> >>, << "U+2C39", << "U+2C09" >> >>,
      << "U+2C3A", << "U+2C0A" >> >>, << "U+2C3B", << "U+2C0B" >> >>,
      << "U+2C3C", << "U+2C0C" >> >>, << "U+2C3D", << "U+2C0D" >> >>,
      << "U+2C3E", << "U+2C0E" >> >>, << "U+2C3F", << "U+2C0F" >> >>,
      << "U+2C40", << "U+2C10" >> >>, << "U+2C41", << "U+2C11" >> >>,
      << "U+2C42", << "U+2C12" >> >>, << "U+2C43", << "U+2C13" >> >>,
      << "U+2C44", << "U+2C14" >> >>, << "U+2C45", << "U+2C15" >> >>,
      << "U+2C46", << "U+2C16" >> >>, << "U+2C47", << "U+2C17" >> >>,
      << "U+2C48", << "U+2C18" >> >>, << "U+2C49", << "U+2C19" >> >>,
      << "U+2C4A", << "U+2C1A" >> >>, << "U+2C4B", << "U+2C1B" >> >>,
      << "U+2C4C", << "U+2C1C" >> >>, << "U+2C4D", << "U+2C1D" >> >>,
      << "U+2C4E", << "U+2C1E" >> >>, << "U+2C4F", << "U+2C1F" >> >>,
      << "U+2C50", << "U+2C20" >> >>, << "U+2C51", << "U+2C21" >> >>,
      << "U+2C52", << "U+2C22" >> >>, << "U+2C53", << "U+2C23" >> >>,
      << "U+2C54", << "U+2C24" >> >>, << "U+2C55", << "U+2C25" >> >>,
      << "U+2C56", << "U+2C26" >> >>, << "U+2C57", << "U+2C27" >> >>,
      << "U+2C58", << "U+2C28" >> >>, << "U+2C59", << "U+2C29" >> >>,
      << "U+2C5A", << "U+2C2A" >> >>, << "U+2C5B", << "U+2C2B" >> >>,
      << "U+2C5C", << "U+2C2C" >> >>, << "U+2C5D", << "U+2C2D" >> >>,
      << "U+2C5E", << "U+2C2E" >> >>, << "U+2C5F", << "U+2C2F" >> >>,
      << "U+2C61", << "U+2C60" >> >>, << "U+2C65", << "U+023A" >> >>,
      << "U+2C66", << "U+023E" >> >>, << "U+2C68", << "U+2C67" >> >>,
      << "U+2C6A", << "U+2C69" >> >>, << "U+2C6C", << "U+2C6B" >> >>,
      << "U+2C73", << "U+2C72" >> >>, << "U+2C76", << "U+2C75" >> >>,
      << "U+2C81", << "U+2C80" >> >>, << "U+2C83", << "U+2C82" >> >>,
      << "U+2C85", << "U+2C84" >> >>, << "U+2C87", << "U+2C86" >> >>,
      << "U+2C89", << "U+2C88" >> >>, << "U+2C8B", << "U+2C8A" >> >>,
      << "U+2C8D", << "U+2C8C" >> >>, << "U+2C8F", << "U+2C8E" >> >>,
      << "U+2C91", << "U+2C90" >> >>, << "U+2C93", << "U+2C92" >> >>,
      << "U+2C95", << "U+2C94" >> >>, << "U+2C97", << "U+2C96" >> >>,
      << "U+2C99", << "U+2C98" >> >>, << "U+2C9B", << "U+2C9A" >> >>,
      << "U+2C9D", << "U+2C9C" >> >>, << "U+2C9F", << "U+2C9E" >> >>,
      << "U+2CA1", << "U+2CA0" >> >>, << "U+2CA3", << "U+2CA2" >> >>,
      << "U+2CA5", << "U+2CA4" >> >>, << "U+2CA7", << "U+2CA6" >> >>,
      << "U+2CA9", << "U+2CA8" >> >>, << "U+2CAB", << "U+2CAA" >> >>,
      << "U+2CAD", << "U+2CAC" >> >>, << "U+2CAF", << "U+2CAE" >> >>,
      << "U+2CB1", << "U+2CB0" >> >>, << "U+2CB3", << "U+2CB2" >> >>,
      << "U+2CB5", << "U+2CB4" >> >>, << "U+2CB7", << "U+2CB6" >> >>,
      << "U+2CB9", << "U+2CB8" >> >>, << "U+2CBB", << "U+2CBA" >> >>,
      << "U+2CBD", << "U+2CBC" >> >>, << "U+2CBF", << "U+2CBE" >> >>,
      << "U+2CC1", << "U+2CC0" >> >>, << "U+2CC3", << "U+2CC2" >> >>,
      << "U+2CC5", << "U+2CC4" >> >>, << "U+2CC7", << "U+2CC6" >> >>,
      << "U+2CC9", << "U+2CC8" >> >>, << "U+2CCB", << "U+2CCA" >> >>,
      << "U+2CCD", << "U+2CCC" >> >>, << "U+2CCF", << "U+2CCE" >> >>,
      << "U+2CD1", << "U+2CD0" >> >>, << "U+2CD3", << "U+2CD2" >> >>,
      << "U+2CD5", << "U+2CD4" >> >>, << "U+2CD7", << "U+2CD6" >> >>,
      << "U+2CD9", << "U+2CD8" >> >>, << "U+2CDB", << "U+2CDA" >> >>,
      << "U+2CDD", << "U+2CDC" >> >>, << "U+2CDF", << "U+2CDE" >> >>,
      << "U+2CE1", << "U+2CE0" >> >>, << "U+2CE3", << "U+2CE2" >> >>,
      << "U+2CEC", << "U+2CEB" >> >>, << "U+2CEE", << "U+2CED" >> >>,
      << "U+2CF3", << "U+2CF2" >> >>, << "U+2D00", << "U+10A0" >> >>,
      << "U+2D01", << "U+10A1" >> >>, << "U+2D02", << "U+10A2" >> >>,
      << "U+2D03", << "U+10A3" >> >>, << "U+2D04", << "U+10A4" >> >>,
      << "U+2D05", << "U+10A5" >> >>, << "U+2D06", << "U+10A6" >> >>,
      << "U+2D07", << "U+10A7" >> >>, << "U+2D08", << "U+10A8" >> >>,
      << "U+2D09", << "U+10A9" >> >>, << "U+2D0A", << "U+10AA" >> >>,
      << "U+2D0B", << "U+10AB" >> >>, << "U+2D0C", << "U+10AC" >> >>,
      << "U+2D0D", << "U+10AD" >> >>, << "U+2D0E", << "U+10AE" >> >>,
      << "U+2D0F", << "U+10AF" >> >>, << "U+2D10", << "U+10B0" >> >>,
      << "U+2D11", << "U+10B1" >> >>, << "U+2D12", << "U+10B2" >> >>,
      << "U+2D13", << "U+10B3" >> >>, << "U+2D14", << "U+10B4" >> >>,
      << "U+2D15", << "U+10B5" >> >>, << "U+2D16", << "U+10B6" >> >>,
      << "U+2D17", << "U+10B7" >> >>, << "U+2D18", << "U+10B8" >> >>,
      << "U+2D19", << "U+10B9" >> >>, << "U+2D1A", << "U+10BA" >> >>,
      << "U+2D1B", << "U+10BB" >> >>, << "U+2D1C", << "U+10BC" >> >>,
      << "U+2D1D", << "U+10BD" >> >>, << "U+2D1E", << "U+10BE" >> >>,
      << "U+2D1F", << "U+10BF" >> >>, << "U+2D20", << "U+10C0" >> >>,
      << "U+2D21", << "U+10C1" >> >>, << "U+2D22", << "U+10C2" >> >>,
      << "U+2D23", << "U+10C3" >> >>, << "U+2D24", << "U+10C4" >> >>,
      << "U+2D25", << "U+10C5" >> >>, << "U+2D27", << "U+10C7" >> >>,
      << "U+2D2D", << "U+10CD" >> >>, << "U+A641", << "U+A640" >> >>,
      << "U+A643", << "U+A642" >> >>, << "U+A645", << "U+A644" >> >>,
      << "U+A647", << "U+A646" >> >>, << "U+A649", << "U+A648" >> >>,
      << "U+A64B", << "U+A64A" >> >>, << "U+A64D", << "U+A64C" >> >>,
      << "U+A64F", << "U+A64E" >> >>, << "U+A651", << "U+A650" >> >>,
      << "U+A653", << "U+A652" >> >>, << "U+A655", << "U+A654" >> >>,
      << "U+A657", << "U+A656" >> >>, << "U+A659", << "U+A658" >> >>,
      << "U+A65B", << "U+A65A" >> >>, << "U+A65D", << "U+A65C" >> >>,
      << "U+A65F", << "U+A65E" >> >>, << "U+A661", << "U+A660" >> >>,
      << "U+A663", << "U+A662" >> >>, << "U+A665", << "U+A664" >> >>,
      << "U+A667", << "U+A666" >> >>, << "U+A669", << "U+A668" >> >>,
      << "U+A66B", << "U+A66A" >> >>, << "U+A66D", << "U+A66C" >> >>,
      << "U+A681", << "U+A680" >> >>, << "U+A683", << "U+A682" >> >>,
      << "U+A685", << "U+A684" >> >>, << "U+A687", << "U+A686" >> >>,
      << "U+A689", << "U+A688" >> >>, << "U+A68B", << "U+A68A" >> >>,
      << "U+A68D", << "U+A68C" >> >>, << "U+A68F", << "U+A68E" >> >>,
      << "U+A691", << "U+A690" >> >>, << "U+A693", << "U+A692" >> >>,
      << "U+A695", << "U+A694" >> >>, << "U+A697", << "U+A696" >> >>,
      << "U+A699", << "U+A698" >> >>, << "U+A69B", << "U+A69A" >> >>,
      << "U+A723", << "U+A722" >> >>, << "U+A725", << "U+A724" >> >>,
      << "U+A727", << "U+A726" >> >>, << "U+A729", << "U+A728" >> >>,
      << "U+A72B", << "U+A72A" >> >>, << "U+A72D", << "U+A72C" >> >>,
      << "U+A72F", << "U+A72E" >> >>, << "U+A733", << "U+A732" >> >>,
      << "U+A735", << "U+A734" >> >>, << "U+A737", << "U+A736" >> >>,
      << "U+A739", << "U+A738" >> >>, << "U+A73B", << "U+A73A" >> >>,
      << "U+A73D", << "U+A73C" >> >>, << "U+A73F", << "U+A73E" >> >>,
      << "U+A741", << "U+A740" >> >>, << "U+A743", << "U+A742" >> >>,
      << "U+A745", << "U+A744" >> >>, << "U+A747", << "U+A746" >> >>,
      << "U+A749", << "U+A748" >> >>, << "U+A74B", << "U+A74A" >> >>,
      << "U+A74D", << "U+A74C" >> >>, << "U+A74F", << "U+A74E" >> >>,
      << "U+A751", << "U+A750" >> >>, << "U+A753", << "U+A752" >> >>,
      << "U+A755", << "U+A754" >> >>, << "U+A757", << "U+A756" >> >>,
      << "U+A759", << "U+A758" >> >>, << "U+A75B", << "U+A75A" >> >>,
      << "U+A75D", << "U+A75C" >> >>, << "U+A75F", << "U+A75E" >> >>,
      << "U+A761", << "U+A760" >> >>, << "U+A763", << "U+A762" >> >>,
      << "U+A765", << "U+A764" >> >>, << "U+A767", << "U+A766" >> >>,
      << "U+A769", << "U+A768" >> >>, << "U+A76B", << "U+A76A" >> >>,
      << "U+A76D", << "U+A76C" >> >>, << "U+A76F", << "U+A76E" >> >>,
      << "U+A77A", << "U+A779" >> >>, << "U+A77C", << "U+A77B" >> >>,
      << "U+A77F", << "U+A77E" >> >>, << "U+A781", << "U+A780" >> >>,
      << "U+A783", << "U+A782" >> >>, << "U+A785", << "U+A784" >> >>,
      << "U+A787", << "U+A786" >> >>, << "U+A78C", << "U+A78B" >> >>,
      << "U+A791", << "U+A790" >> >>, << "U+A793", << "U+A792" >> >>,
      << "U+A794", << "U+A7C4" >> >>, << "U+A797", << "U+A796" >> >>,
      << "U+A799", << "U+A798" >> >>, << "U+A79B", << "U+A79A" >> >>,
      << "U+A79D", << "U+A79C" >> >>, << "U+A79F", << "U+A79E" >> >>,
      << "U+A7A1", << "U+A7A0" >> >>, << "U+A7A3", << "U+A7A2" >> >>,
      << "U+A7A5", << "U+A7A4" >> >>, << "U+A7A7", << "U+A7A6" >> >>,
      << "U+A7A9", << "U+A7A8" >> >>, << "U+A7B5", << "U+A7B4" >> >>,
      << "U+A7B7", << "U+A7B6" >> >>, << "U+A7B9", << "U+A7B8" >> >>,
      << "U+A7BB", << "U+A7BA" >> >>, << "U+A7BD", << "U+A7BC" >> >>,
      << "U+A7BF", << "U+A7BE" >> >>, << "U+A7C1", << "U+A7C0" >> >>,
      << "U+A7C3", << "U+A7C2" >> >>, << "U+A7C8", << "U+A7C7" >> >>,
      << "U+A7CA", << "U+A7C9" >> >>, << "U+A7D1", << "U+A7D0" >> >>,
      << "U+A7D7", << "U+A7D6" >> >>, << "U+A7D9", << "U+A7D8" >> >>,
      << "U+A7F6", << "U+A7F5" >> >>, << "U+AB53", << "U+A7B3" >> >>,
      << "U+AB70", << "U+13A0" >> >>, << "U+AB71", << "U+13A1" >> >>,
      << "U+AB72", << "U+13A2" >> >>, << "U+AB73", << "U+13A3" >> >>,
      << "U+AB74", << "U+13A4" >> >>, << "U+AB75", << "U+13A5" >> >>,
      << "U+AB76", << "U+13A6" >> >>, << "U+AB77", << "U+13A7" >> >>,
      << "U+AB78", << "U+13A8" >> >>, << "U+AB79", << "U+13A9" >> >>,
      << "U+AB7A", << "U+13AA" >> >>, << "U+AB7B", << "U+13AB" >> >>,
      << "U+AB7C", << "U+13AC" >> >>, << "U+AB7D", << "U+13AD" >> >>,
      << "U+AB7E", << "U+13AE" >> >>, << "U+AB7F", << "U+13AF" >> >>,
      << "U+AB80", << "U+13B0" >> >>, << "U+AB81", << "U+13B1" >> >>,
      << "U+AB82", << "U+13B2" >> >>, << "U+AB83", << "U+13B3" >> >>,
      << "U+AB84", << "U+13B4" >> >>, << "U+AB85", << "U+13B5" >> >>,
      << "U+AB86", << "U+13B6" >> >>, << "U+AB87", << "U+13B7" >> >>,
      << "U+AB88", << "U+13B8" >> >>, << "U+AB89", << "U+13B9" >> >>,
      << "U+AB8A", << "U+13BA" >> >>, << "U+AB8B", << "U+13BB" >> >>,
      << "U+AB8C", << "U+13BC" >> >>, << "U+AB8D", << "U+13BD" >> >>,
      << "U+AB8E", << "U+13BE" >> >>, << "U+AB8F", << "U+13BF" >> >>,
      << "U+AB90", << "U+13C0" >> >>, << "U+AB91", << "U+13C1" >> >>,
      << "U+AB92", << "U+13C2" >> >>, << "U+AB93", << "U+13C3" >> >>,
      << "U+AB94", << "U+13C4" >> >>, << "U+AB95", << "U+13C5" >> >>,
      << "U+AB96", << "U+13C6" >> >>, << "U+AB97", << "U+13C7" >> >>,
      << "U+AB98", << "U+13C8" >> >>, << "U+AB99", << "U+13C9" >> >>,
      << "U+AB9A", << "U+13CA" >> >>, << "U+AB9B", << "U+13CB" >> >>,
      << "U+AB9C", << "U+13CC" >> >>, << "U+AB9D", << "U+13CD" >> >>,
      << "U+AB9E", << "U+13CE" >> >>, << "U+AB9F", << "U+13CF" >> >>,
      << "U+ABA0", << "U+13D0" >> >>, << "U+ABA1", << "U+13D1" >> >>,
      << "U+ABA2", << "U+13D2" >> >>, << "U+ABA3", << "U+13D3" >> >>,
      << "U+ABA4", << "U+13D4" >> >>, << "U+ABA5", << "U+13D5" >> >>,
      << "U+ABA6", << "U+13D6" >> >>, << "U+ABA7", << "U+13D7" >> >>,
      << "U+ABA8", << "U+13D8" >> >>, << "U+ABA9", << "U+13D9" >> >>,
      << "U+ABAA", << "U+13DA" >> >>, << "U+ABAB", << "U+13DB" >> >>,
      << "U+ABAC", << "U+13DC" >> >>, << "U+ABAD", << "U+13DD" >> >>,
      << "U+ABAE", << "U+13DE" >> >>, << "U+ABAF", << "U+13DF" >> >>,
      << "U+ABB0", << "U+13E0" >> >>, << "U+ABB1", << "U+13E1" >> >>,
      << "U+ABB2", << "U+13E2" >> >>, << "U+ABB3", << "U+13E3" >> >>,
      << "U+ABB4", << "U+13E4" >> >>, << "U+ABB5", << "U+13E5" >> >>,
      << "U+ABB6", << "U+13E6" >> >>, << "U+ABB7", << "U+13E7" >> >>,
      << "U+ABB8", << "U+13E8" >> >>, << "U+ABB9", << "U+13E9" >> >>,
      << "U+ABBA", << "U+13EA" >> >>, << "U+ABBB", << "U+13EB" >> >>,
      << "U+ABBC", << "U+13EC" >> >>, << "U+ABBD", << "U+13ED" >> >>,
      << "U+ABBE", << "U+13EE" >> >>, << "U+ABBF", << "U+13EF" >> >>,
      << "U+FB00", << "F", "F" >> >>, << "U+FB01", << "F", "I" >> >>,
      << "U+FB02", << "F", "L" >> >>, << "U+FB03", << "F", "F", "I" >> >>,
      << "U+FB04", << "F", "F", "L" >> >>, << "U+FB05", << "S", "T" >> >>,
      << "U+FB06", << "S", "T" >> >>,
      << "U+FB13", << "U+0544", "U+0546" >> >>,
      << "U+FB14", << "U+0544", "U+0535" >> >>,
      << "U+FB15", << "U+0544", "U+053B" >> >>,
      << "U+FB16", << "U+054E", "U+0546" >> >>,
      << "U+FB17", << "U+0544", "U+053D" >> >>,
      << "U+FF41", << "U+FF21" >> >>, << "U+FF42", << "U+FF22" >> >>,
      << "U+FF43", << "U+FF23" >> >>, << "U+FF44", << "U+FF24" >> >>,
      << "U+FF45", << "U+FF25" >> >>, << "U+FF46", << "U+FF26" >> >>,
      << "U+FF47", << "U+FF27" >> >>, << "U+FF48", << "U+FF28" >> >>,
      << "U+FF49", << "U+FF29" >> >>, << "U+FF4A", << "U+FF2A" >> >>,
      << "U+FF4B", << "U+FF2B" >> >>, << "U+FF4C", << "U+FF2C" >> >>,
      << "U+FF4D", << "U+FF2D" >> >>, << "U+FF4E", << "U+FF2E" >> >>,
      << "U+FF4F", << "U+FF2F" >> >>, << "U+FF50", << "U+FF30" >> >>,
      << "U+FF51", << "U+FF31" >> >>, << "U+FF52", << "U+FF32" >> >>,
      << "U+FF53", << "U+FF33" >> >>, << "U+FF54", << "U+FF34" >> >>,
      << "U+FF55", << "U+FF35" >> >>, << "U+FF56", << "U+FF36" >> >>,
      << "U+FF57", << "U+FF37" >> >>, << "U+FF58", << "U+FF38" >> >>,
      << "U+FF59", << "U+FF39" >> >>, << "U+FF5A", << "U+FF3A" >> >>,
      << "U+10428", << "U+10400" >> >>, << "U+10429", << "U+10401" >> >>,
      << "U+1042A", << "U+10402" >> >>, << "U+1042B", << "U+10403" >> >>,
      << "U+1042C", << "U+10404" >> >>, << "U+1042D", << "U+10405" >> >>,
      << "U+1042E", << "U+10406" >> >>, << "U+1042F", << "U+10407" >> >>,
      << "U+10430", << "U+10408" >> >>, << "U+10431", << "U+10409" >> >>,
      << "U+10432", << "U+1040A" >> >>, << "U+10433", << "U+1040B" >> >>,
      << "U+10434", << "U+1040C" >> >>, << "U+10435", << "U+1040D" >> >>,
      << "U+10436", << "U+1040E" >> >>, << "U+10437", << "U+1040F" >> >>,
      << "U+10438", << "U+10410" >> >>, << "U+10439", << "U+10411" >> >>,
      << "U+1043A", << "U+10412" >> >>, << "U+1043B", << "U+10413" >> >>,
      << "U+1043C", << "U+10414" >> >>, << "U+1043D", << "U+10415" >> >>,
      << "U+1043E", << "U+10416" >> >>, << "U+1043F", << "U+10417" >> >>,
      << "U+10440", << "U+10418" >> >>, << "U+10441", << "U+10419" >> >>,
      << "U+10442", << "U+1041A" >> >>, << "U+10443", << "U+1041B" >> >>,
      << "U+10444", << "U+1041C" >> >>, << "U+10445", << "U+1041D" >> >>,
      << "U+10446", << "U+1041E" >> >>, << "U+10447", << "U+1041F" >> >>,
      << "U+10448", << "U+10420" >> >>, << "U+10449", << "U+10421" >> >>,
      << "U+1044A", << "U+10422" >> >>, << "U+1044B", << "U+10423" >> >>,
      << "U+1044C", << "U+10424" >> >>, << "U+1044D", << "U+10425" >> >>,
      << "U+1044E", << "U+10426" >> >>, << "U+1044F", << "U+10427" >> >>,
      << "U+104D8", << "U+104B0" >> >>, << "U+104D9", << "U+104B1" >> >>,
      << "U+104DA", << "U+104B2" >> >>, << "U+104DB", << "U+104B3" >> >>,
      << "U+104DC", << "U+104B4" >> >>, << "U+104DD", << "U+104B5" >> >>,
      << "U+104DE", << "U+104B6" >> >>, << "U+104DF", << "U+104B7" >> >>,
      << "U+104E0", << "U+104B8" >> >>, << "U+104E1", << "U+104B9" >> >>,
      << "U+104E2", << "U+104BA" >> >>, << "U+104E3", << "U+104BB" >> >>,
      << "U+104E4", << "U+104BC" >> >>, << "U+104E5", << "U+104BD" >> >>,
      << "U+104E6", << "U+104BE" >> >>, << "U+104E7", << "U+104BF" >> >>,
      << "U+104E8", << "U+104C0" >> >>, << "U+104E9", << "U+104C1" >> >>,
      << "U+104EA", << "U+104C2" >> >>, << "U+104EB", << "U+104C3" >> >>,
      << "U+104EC", << "U+104C4" >> >>, << "U+104ED", << "U+104C5" >> >>,
      << "U+104EE", << "U+104C6" >> >>, << "U+104EF", << "U+104C7" >> >>,
      << "U+104F0", << "U+104C8" >> >>, << "U+104F1", << "U+104C9" >> >>,
      << "U+104F2", << "U+104CA" >> >>, << "U+104F3", << "U+104CB" >> >>,
      << "U+104F4", << "U+104CC" >> >>, << "U+104F5", << "U+104CD" >> >>,
      << "U+104F6", << "U+104CE" >> >>, << "U+104F7", << "U+104CF" >> >>,
      << "U+104F8", << "U+104D0" >> >>, << "U+104F9", << "U+104D1" >> >>,
      << "U+104FA", << "U+104D2" >> >>, << "U+104FB", << "U+104D3" >> >>,
      << "U+10597", << "U+10570" >> >>, << "U+10598", << "U+10571" >> >>,
      << "U+10599", << "U+10572" >> >>, << "U+1059A", << "U+10573" >> >>,
      << "U+1059B", << "U+10574" >> >>, << "U+1059C", << "U+10575" >> >>,
      << "U+1059D", << "U+10576" >> >>, << "U+1059E", << "U+10577" >> >>,
      << "U+1059F", << "U+10578" >> >>, << "U+105A0", << "U+10579" >> >>,
      << "U+105A1", << "U+1057A" >> >>, << "U+105A3", << "U+1057C" >> >>,
      << "U+105A4", << "U+1057D" >> >>, << "U+105A5", << "U+1057E" >> >>,
      << "U+105A6", << "U+1057F" >> >>, << "U+105A7", << "U+10580" >> >>,
      << "U+105A8", << "U+10581" >> >>, << "U+105A9", << "U+10582" >> >>,
      << "U+105AA", << "U+10583" >> >>, << "U+105AB", << "U+10584" >> >>,
      << "U+105AC", << "U+10585" >> >>, << "U+105AD", << "U+10586" >> >>,
      << "U+105AE", << "U+10587" >> >>, << "U+105AF", << "U+10588" >> >>,
      << "U+105B0", << "U+10589" >> >>, << "U+105B1", << "U+1058A" >> >>,
      << "U+105B3", << "U+1058C" >> >>, << "U+105B4", << "U+1058D" >> >>,
      << "U+105B5", << "U+1058E" >> >>, << "U+105B6", << "U+1058F" >> >>,
      << "U+105B7", << "U+10590" >> >>, << "U+105B8", << "U+10591" >> >>,
      << "U+105B9", << "U+10592" >> >>, << "U+105BB", << "U+10594" >> >>,
      << "U+105BC", << "U+10595" >> >>, << "U+10CC0", << "U+10C80" >> >>,
      << "U+10CC1", << "U+10C81" >> >>, << "U+10CC2", << "U+10C82" >> >>,
      << "U+10CC3", << "U+10C83" >> >>, << "U+10CC4", << "U+10C84" >> >>,
      << "U+10CC5", << "U+10C85" >> >>, << "U+10CC6", << "U+10C86" >> >>,
      << "U+10CC7", << "U+10C87" >> >>, << "U+10CC8", << "U+10C88" >> >>,
      << "U+10CC9", << "U+10C89" >> >>, << "U+10CCA", << "U+10C8A" >> >>,
      << "U+10CCB", << "U+10C8B" >> >>, << "U+10CCC", << "U+10C8C" >> >>,
      << "U+10CCD", << "U+10C8D" >> >>, << "U+10CCE", << "U+10C8E" >> >>,
      << "U+10CCF", << "U+10C8F" >> >>, << "U+10CD0", << "U+10C90" >> >>,
      << "U+10CD1", << "U+10C91" >> >>, << "U+10CD2", << "U+10C92" >> >>,
      << "U+10CD3", << "U+10C93" >> >>, << "U+10CD4", << "U+10C94" >> >>,
      << "U+10CD5", << "U+10C95" >> >>, << "U+10CD6", << "U+10C96" >> >>,
      << "U+10CD7", << "U+10C97" >> >>, << "U+10CD8", << "U+10C98" >> >>,
      << "U+10CD9", << "U+10C99" >> >>, << "U+10CDA", << "U+10C9A" >> >>,
      << "U+10CDB", << "U+10C9B" >> >>, << "U+10CDC", << "U+10C9C" >> >>,
      << "U+10CDD", << "U+10C9D" >> >>, << "U+10CDE", << "U+10C9E" >> >>,
      << "U+10CDF", << "U+10C9F" >> >>, << "U+10CE0", << "U+10CA0" >> >>,
      << "U+10CE1", << "U+10CA1" >> >>, << "U+10CE2", << "U+10CA2" >> >>,
      << "U+10CE3", << "U+10CA3" >> >>, << "U+10CE4", << "U+10CA4" >> >>,
      << "U+10CE5", << "U+10CA5" >> >>, << "U+10CE6", << "U+10CA6" >> >>,
      << "U+10CE7", << "U+10CA7" >> >>, << "U+10CE8", << "U+10CA8" >> >>,
      << "U+10CE9", << "U+10CA9" >> >>, << "U+10CEA", << "U+10CAA" >> >>,
      << "U+10CEB", << "U+10CAB" >> >>, << "U+10CEC", << "U+10CAC" >> >>,
      << "U+10CED", << "U+10CAD" >> >>, << "U+10CEE", << "U+10CAE" >> >>,
      << "U+10CEF", << "U+10CAF" >> >>, << "U+10CF0", << "U+10CB0" >> >>,
      << "U+10CF1", << "U+10CB1" >> >>, << "U+10CF2", << "U+10CB2" >> >>,
      << "U+118C0", << "U+118A0" >> >>, << "U+118C1", << "U+118A1" >> >>,
      << "U+118C2", << "U+118A2" >> >>, << "U+118C3", << "U+118A3" >> >>,
      << "U+118C4", << "U+118A4" >> >>, << "U+118C5", << "U+118A5" >> >>,
      << "U+118C6", << "U+118A6" >> >>, << "U+118C7", << "U+118A7" >> >>,
      << "U+118C8", << "U+118A8" >> >>, << "U+118C9", << "U+118A9" >> >>,
      << "U+118CA", << "U+118AA" >> >>, << "U+118CB", << "U+118AB" >> >>,
      << "U+118CC", << "U+118AC" >> >>, << "U+118CD", << "U+118AD" >> >>,
      << "U+118CE", << "U+118AE" >> >>, << "U+118CF", << "U+118AF" >> >>,
      << "U+118D0", << "U+118B0" >> >>, << "U+118D1", << "U+118B1" >> >>,
      << "U+118D2", << "U+118B2" >> >>, << "U+118D3", << "U+118B3" >> >>,
      << "U+118D4", << "U+118B4" >> >>, << "U+118D5", << "U+118B5" >> >>,
      << "U+118D6", << "U+118B6" >> >>, << "U+118D7", << "U+118B7" >> >>,
      << "U+118D8", << "U+118B8" >> >>, << "U+118D9", << "U+118B9" >> >>,
      << "U+118DA", << "U+118BA" >> >>, << "U+118DB", << "U+118BB" >> >>,
      << "U+118DC", << "U+118BC" >> >>, << "U+118DD", << "U+118BD" >> >>,
      << "U+118DE", << "U+118BE" >> >>, << "U+118DF", << "U+118BF" >> >>,
      << "U+16E60", << "U+16E40" >> >>, << "U+16E61", << "U+16E41" >> >>,
      << "U+16E62", << "U+16E42" >> >>, << "U+16E63", << "U+16E43" >> >>,
      << "U+16E64", << "U+16E44" >> >>, << "U+16E65", << "U+16E45" >> >>,
      << "U+16E66", << "U+16E46" >> >>, << "U+16E67", << "U+16E47" >> >>,
      << "U+16E68", << "U+16E48" >> >>, << "U+16E69", << "U+16E49" >> >>,
      << "U+16E6A", << "U+16E4A" >> >>, << "U+16E6B", << "U+16E4B" >> >>,
      << "U+16E6C", << "U+16E4C" >> >>, << "U+16E6D", << "U+16E4D" >> >>,
      << "U+16E6E", << "U+16E4E" >> >>, << "U+16E6F", << "U+16E4F" >> >>,
      << "U+16E70", << "U+16E50" >> >>, << "U+16E71", << "U+16E51" >> >>,
      << "U+16E72", << "U+16E52" >> >>, << "U+16E73", << "U+16E53" >> >>,
      << "U+16E74", << "U+16E54" >> >>, << "U+16E75", << "U+16E55" >> >>,
      << "U+16E76", << "U+16E56" >> >>, << "U+16E77", << "U+16E57" >> >>,
      << "U+16E78", << "U+16E58" >> >>, << "U+16E79", << "U+16E59" >> >>,
      << "U+16E7A", << "U+16E5A" >> >>, << "U+16E7B", << "U+16E5B" >> >>,
      << "U+16E7C", << "U+16E5C" >> >>, << "U+16E7D", << "U+16E5D" >> >>,
      << "U+16E7E", << "U+16E5E" >> >>, << "U+16E7F", << "U+16E5F" >> >>,
      << "U+1E922", << "U+1E900" >> >>, << "U+1E923", << "U+1E901" >> >>,
      << "U+1E924", << "U+1E902" >> >>, << "U+1E925", << "U+1E903" >> >>,
      << "U+1E926", << "U+1E904" >> >>, << "U+1E927", << "U+1E905" >> >>,
      << "U+1E928", << "U+1E906" >> >>, << "U+1E929", << "U+1E907" >> >>,
      << "U+1E92A", << "U+1E908" >> >>, << "U+1E92B", << "U+1E909" >> >>,
      << "U+1E92C", << "U+1E90A" >> >>, << "U+1E92D", << "U+1E90B" >> >>,
      << "U+1E92E", << "U+1E90C" >> >>, << "U+1E92F", << "U+1E90D" >> >>,
      << "U+1E930", << "U+1E90E" >> >>, << "U+1E931", << "U+1E90F" >> >>,
      << "U+1E932", << "U+1E910" >> >>, << "U+1E933", << "U+1E911" >> >>,
      << "U+1E934", << "U+1E912" >> >>, << "U+1E935", << "U+1E913" >> >>,
      << "U+1E936", << "U+1E914" >> >>, << "U+1E937", << "U+1E915" >> >>,
      << "U+1E938", << "U+1E916" >> >>, << "U+1E939", << "U+1E917" >> >>,
      << "U+1E93A", << "U+1E918" >> >>, << "U+1E93B", << "U+1E919" >> >>,
      << "U+1E93C", << "U+1E91A" >> >>, << "U+1E93D", << "U+1E91B" >> >>,
      << "U+1E93E", << "U+1E91C" >> >>, << "U+1E93F", << "U+1E91D" >> >>,
      << "U+1E940", << "U+1E91E" >> >>, << "U+1E941", << "U+1E91F" >> >>,
      << "U+1E942", << "U+1E920" >> >>, << "U+1E943", << "U+1E921" >> >>
    }

\* The characters of UpperSpecial.
UpperSpecialChars == { p[1] : p \in UpperSpecial }

\* str.upper() on one character, as a string: an ASCII lower-case letter
\* becomes its capital, a character of UpperSpecial what the table says,
\* every other character is left alone.
UpperChar(c) ==
    IF \E i \in 1..26 : LowerLetters[i] = c
    THEN << UpperLetters[CHOOSE i \in 1..26 : LowerLetters[i] = c] >>
    ELSE IF c \in UpperSpecialChars
    THEN (CHOOSE p \in UpperSpecial : p[1] = c)[2]
    ELSE << c >>

\* s.upper()
RECURSIVE upper(_)
upper(s) == IF s = << >> THEN << >> ELSE UpperChar(Head(s)) \o upper(Tail(s))

\* The whitespace str.strip() and int() remove, all of it: tab, newline,
\* vertical tab (U+000B), form feed, carriage return, the separators
\* U+001C to U+001F, the blank, the next-line control U+0085, the no-break
\* space U+00A0, and the Unicode spaces beyond.  The characters up to
\* U+00FF stand in the set as themselves.
IsSpace(c) ==
    c \in { "\t", "\n", "", "\f", "\r", "",
            "", "", "", " ", "", " ",
            "U+1680", "U+2000", "U+2001", "U+2002", "U+2003", "U+2004",
            "U+2005", "U+2006", "U+2007", "U+2008", "U+2009", "U+200A",
            "U+2028", "U+2029", "U+202F", "U+205F", "U+3000" }

RECURSIVE lstrip(_)
lstrip(s) ==
    IF s # << >> /\ IsSpace(Head(s)) THEN lstrip(Tail(s)) ELSE s

RECURSIVE rstrip(_)
rstrip(s) ==
    IF s # << >> /\ IsSpace(s[Len(s)])
    THEN rstrip(SubSeq(s, 1, Len(s) - 1))
    ELSE s

\* s.strip()
strip(s) == rstrip(lstrip(s))

\* s.split(sep) for a one-character separator: the pieces between the
\* separators, empty pieces included ("".split("+") is [""]).
RECURSIVE split(_, _)
split(s, sep) ==
    IF \E i \in 1..Len(s) : s[i] = sep
    THEN LET i == CHOOSE k \in 1..Len(s) :
                      s[k] = sep /\ \A j \in 1..(k - 1) : s[j] # sep
         IN  << SubSeq(s, 1, i - 1) >> \o split(SubSeq(s, i + 1, Len(s)), sep)
    ELSE << s >>

\* sub in s  (substring test)
Contains(s, sub) ==
    \E i \in 0..(Len(s) - Len(sub)) : SubSeq(s, i + 1, i + Len(sub)) = sub

\* s.startswith(c) for a one-character prefix
startswith(s, c) == s # << >> /\ s[1] = c

IsDigit(c) == \E i \in 1..10 : Digits[i] = c

DigitVal(c) == (CHOOSE i \in 1..10 : Digits[i] = c) - 1

RECURSIVE DigitsVal(_)
DigitsVal(s) ==
    IF s = << >> THEN 0
    ELSE DigitsVal(SubSeq(s, 1, Len(s) - 1)) * 10 + DigitVal(s[Len(s)])

\* The digits of a literal handed to int(): the text without surrounding
\* whitespace and without one leading sign.
IntBody(s) ==
    LET t == strip(s)
    IN  IF t # << >> /\ (t[1] = "+" \/ t[1] = "-") THEN Tail(t) ELSE t

\* Whether int(s) returns; it raises ValueError otherwise.  (Python also
\* takes single underscores between digits; no string here has one.)
IntOk(s) ==
    IntBody(s) # << >> /\ \A i \in 1..Len(IntBody(s)) : IsDigit(IntBody(s)[i])

\* int(s), where IntOk(s)
int(s) ==
    IF strip(s)[1] = "-" THEN 0 - DigitsVal(IntBody(s)) ELSE DigitsVal(IntBody(s))

\* ------------------------------------------------------------------------
\* 1) Constants & Mappings
\* ------------------------------------------------------------------------

theory_mapping ==
       (<<"A", "1">> :> << << "TU", <<"0", "9", ":", "0", "0">>, <<"0", "9", ":", "5", "0">> >>, << "SA", <<"1", "2", ":", "0", "0">>, <<"1", "2", ":", "5", "0">> >> >>)
    @@ (<<"A", "2">> :> << << "TU", <<"1", "5", ":", "0", "0">>, <<"1", "5", ":", "5", "0">> >>, << "SA", <<"1", "6", ":", "0", "0">>, <<"1", "6", ":", "5", "0">> >> >>)
    @@ (<<"B", "1">> :> << << "TU", <<"1", "0", ":", "0", "0">>, <<"1", "0", ":", "5", "0">> >>, << "WE", <<"1", "2", ":", "0", "0">>, <<"1", "2", ":", "5", "0">> >> >>)
    @@ (<<"B", "2">> :> << << "WE", <<"1", "7", ":", "0", "0">>, <<"1", "7", ":", "5", "0">> >>, << "TH", <<"1", "4", ":", "0", "0">>, <<"1", "4", ":", "5", "0">> >> >>)
    @@ (<<"C", "1">> :> << << "TU", <<"1", "1", ":", "0", "0">>, <<"1", "1", ":", "5", "0">> >>, << "SA", <<"1", "0", ":", "0", "0">>, <<"1", "0", ":", "5", "0">> >> >>)
    @@ (<<"C", "2">> :> << << "TU", <<"1", "7", ":", "0", "0">>, <<"1", "7", ":", "5", "0">> >>, << "FR", <<"1", "4", ":", "0", "0">>, <<"1", "4", ":", "5", "0">> >> >>)
    @@ (<<"D", "1">> :> << << "TU", <<"1", "2", ":", "0", "0">>, <<"1", "2", ":", "5", "0">> >>, << "WE", <<"0", "9", ":", "0", "0">>, <<"0", "9", ":", "5", "0">> >> >>)
    @@ (<<"D", "2">> :> << << "WE", <<"1", "4", ":", "0", "0">>, <<"1", "4", ":", "5", "0">> >>, << "SA", <<"1", "4", ":", "0", "0">>, <<"1", "4", ":", "5", "0">> >> >>)
    @@ (<<"E", "1">> :> << << "WE", <<"1", "1", ":", "0", "0">>, <<"1", "1", ":", "5", "0">> >>, << "SA", <<"0", "9", ":", "0", "0">>, <<"0", "9", ":", "5", "0">> >> >>)
    @@ (<<"E", "2">> :> << << "TU", <<"1", "4", ":", "0", "0">>, <<"1", "4", ":", "5", "0">> >>, << "WE", <<"1", "5", ":", "0", "0">>, <<"1", "5", ":", "5", "0">> >> >>)
    @@ (<<"F", "1">> :> << << "WE", <<"1", "0", ":", "0", "0">>, <<"1", "0", ":", "5", "0">> >>, << "FR", <<"1", "1", ":", "0", "0">>, <<"1", "1", ":", "5", "0">> >> >>)
    @@ (<<"F", "2">> :> << << "WE", <<"1", "6", ":", "0", "0">>, <<"1", "6", ":", "5", "0">> >>, << "TH", <<"1", "5", ":", "0", "0">>, <<"1", "5", ":", "5", "0">> >> >>)
    @@ (<<"G", "1">> :> << << "FR", <<"1", "0", ":", "0", "0">>, <<"1", "0", ":", "5", "0">> >>, << "SA", <<"1", "1", ":", "0", "0">>, <<"1", "1", ":", "5", "0">> >> >>)
    @@ (<<"G", "2">> :> << << "TU", <<"1", "6", ":", "0", "0">>, <<"1", "6", ":", "5", "0">> >>, << "FR", <<"1", "6", ":", "0", "0">>, <<"1", "6", ":", "5", "0">> >> >>)
    @@ (<<"T", "A", "1">> :> << << "TH", <<"1", "1", ":", "0", "0">>, <<"1", "1", ":", "5", "0">> >> >>)
    @@ (<<"T", "A", "2">> :> << << "TH", <<"1", "7", ":", "0", "0">>, <<"1", "7", ":", "5", "0">> >> >>)
    @@ (<<"T", "B", "1">> :> << << "FR", <<"0", "9", ":", "0", "0">>, <<"0", "9", ":", "5", "0">> >> >>)
    @@ (<<"T", "B", "2">> :> << << "FR", <<"1", "5", ":", "0", "0">>, <<"1", "5", ":", "5", "0">> >> >>)
    @@ (<<"T", "C", "1">> :> << << "TH", <<"0", "9", ":", "0", "0">>, <<"0", "9", ":", "5", "0">> >> >>)
    @@ (<<"T", "C", "2">> :> << << "SA", <<"1", "5", ":", "0", "0">>, <<"1", "5", ":", "5", "0">> >> >>)
    @@ (<<"T", "D", "1">> :> << << "TH", <<"1", "0", ":", "0", "0">>, <<"1", "0", ":", "5", "0">> >> >>)
    @@ (<<"T", "D", "2">> :> << << "TH", <<"1", "6", ":", "0", "0">>, <<"1", "6", ":", "5", "0">> >> >>)
    @@ (<<"T", "E", "1">> :> << << "FR", <<"1", "2", ":", "0", "0">>, <<"1", "2", ":", "5", "0">> >> >>)
    @@ (<<"T", "E", "2">> :> << << "FR", <<"1", "7", ":", "0", "0">>, <<"1", "7", ":", "5", "0">> >> >>)
    @@ (<<"T", "F", "1">> :> << << "TH", <<"0", "8", ":", "0", "0">>, <<"0", "8", ":", "5", "0">> >> >>)
    @@ (<<"T", "F", "2">> :> << << "TH", <<"1", "8", ":", "0", "0">>, <<"1", "8", ":", "5", "0">> >> >>)
    @@ (<<"T", "G", "1">> :> << << "WE", <<"0", "8", ":", "0", "0">>, <<"0", "8", ":", "5", "0">> >> >>)
    @@ (<<"T", "G", "2">> :> << << "SA", <<"1", "8", ":", "0", "0">>, <<"1", "8", ":", "5", "0">> >> >>)
    @@ (<<"T", "A", "A", "1">> :> << << "FR", <<"1", "0", ":", "0", "0">>, <<"1", "0", ":", "5", "0">> >> >>)
    @@ (<<"T", "B", "B", "1">> :> << << "SA", <<"1", "1", ":", "0", "0">>, <<"1", "1", ":", "5", "0">> >> >>)
    @@ (<<"T", "C", "C", "1">> :> << << "FR", <<"0", "8", ":", "0", "0">>, <<"0", "8", ":", "5", "0">> >> >>)
    @@ (<<"T", "D", "D", "1">> :> << << "SA", <<"0", "8", ":", "0", "0">>, <<"0", "8", ":", "5", "0">> >> >>)
    @@ (<<"T", "E", "E", "1">> :> << << "TU", <<"0", "8", ":", "0", "0">>, <<"0", "8", ":", "5", "0">> >> >>)
    @@ (<<"T", "F", "F", "1">> :> << << "TH", <<"1", "2", ":", "0", "0">>, <<"1", "2", ":", "5", "0">> >> >>)
    @@ (<<"T", "A", "A", "2">> :> << << "FR", <<"1", "6", ":", "0", "0">>, <<"1", "6", ":", "5", "0">> >> >>)
    @@ (<<"T", "B", "B", "2">> :> << << "TU", <<"1", "6", ":", "0", "0">>, <<"1", "6", ":", "5", "0">> >> >>)
    @@ (<<"T", "C", "C", "2">> :> << << "WE", <<"1", "8", ":", "0", "0">>, <<"1", "8", ":", "5", "0">> >> >>)
    @@ (<<"T", "D", "D", "2">> :> << << "TU", <<"1", "8", ":", "0", "0">>, <<"1", "8", ":", "5", "0">> >> >>)
    @@ (<<"T", "E", "E", "2">> :> << << "TH", <<"1", "8", ":", "0", "0">>, <<"1", "8", ":", "5", "0">> >> >>)
    @@ (<<"S", "C", "2">> :> << << "WE", <<"1", "1", ":", "0", "0">>, <<"1", "1", ":", "5", "0">> >> >>)
    @@ (<<"C", "L", "U", "B", "S">> :> << << "TH", <<"1", "2", ":", "0", "0">>, <<"1", "2", ":", "5", "0">> >>, << "SA", <<"1", "7", ":", "0", "0">>, <<"1", "7", ":", "5", "0">> >>, << "SA", <<"1", "8", ":", "0", "0">>, <<"1", "8", ":", "5", "0">> >> >>)
    @@ (<<"E", "C", "S">> :> << << "TH", <<"1", "2", ":", "0", "0">>, <<"1", "2", ":", "5", "0">> >>, << "SA", <<"1", "7", ":", "0", "0">>, <<"1", "7", ":", "5", "0">> >>, << "SA", <<"1", "8", ":", "0", "0">>, <<"1", "8", ":", "5", "0">> >> >>)
    @@ (<<"S", "D", "2">> :> << << "FR", <<"1", "2", ":", "0", "0">>, <<"1", "2", ":", "5", "0">> >> >>)
    @@ (<<"S", "E", "2">> :> << << "SA", <<"0", "9", ":", "0", "0">>, <<"0", "9", ":", "5", "0">> >> >>)
    @@ (<<"S", "E", "1">> :> << << "TU", <<"1", "4", ":", "0", "0">>, <<"1", "4", ":", "5", "0">> >> >>)
    @@ (<<"S", "C", "1">> :> << << "WE", <<"1", "5", ":", "0", "0">>, <<"1", "5", ":", "5", "0">> >> >>)
    @@ (<<"S", "D", "1">> :> << << "FR", <<"1", "7", ":", "0", "0">>, <<"1", "7", ":", "5", "0">> >> >>)
    @@ (<<"S", "F", "1">> :> << << "SA", <<"1", "7", ":", "0", "0">>, <<"1", "7", ":", "5", "0">> >> >>)

lab_mapping ==
       (<<"L", "1", "+", "L", "2">> :> << << "TU", <<"0", "8", ":", "0", "0">>, <<"0", "9", ":", "4", "0">> >> >>)
    @@ (<<"L", "2", "+", "L", "3">> :> << << "TU", <<"0", "9", ":", "0", "0">>, <<"1", "0", ":", "4", "0">> >> >>)
    @@ (<<"L", "3", "+", "L", "4">> :> << << "TU", <<"1", "0", ":", "0", "0">>, <<"1", "1", ":", "4", "0">> >> >>)
    @@ (<<"L", "4", "+", "L", "5">> :> << << "TU", <<"1", "1", ":", "0", "0">>, <<"1", "2", ":", "4", "0">> >> >>)
    @@ (<<"L", "5", "+", "L", "6">> :> << << "TU", <<"1", "2", ":", "0", "0">>, <<"1", "3", ":", "3", "0">> >> >>)
    @@ (<<"L", "7", "+", "L", "8">> :> << << "WE", <<"0", "8", ":", "0", "0">>, <<"0", "9", ":", "4", "0">> >> >>)
    @@ (<<"L", "8", "+", "L", "9">> :> << << "WE", <<"0", "9", ":", "0", "0">>, <<"1", "0", ":", "4", "0">> >> >>)
    @@ (<<"L", "9", "+", "L", "1", "0">> :> << << "WE", <<"1", "0", ":", "0", "0">>, <<"1", "1", ":", "4", "0">> >> >>)
    @@ (<<"L", "1", "0", "+", "L", "1", "1">> :> << << "WE", <<"1", "1", ":", "0", "0">>, <<"1", "2", ":", "4", "0">> >> >>)
    @@ (<<"L", "1", "1", "+", "L", "1", "2">> :> << << "WE", <<"1", "2", ":", "0", "0">>, <<"1", "3", ":", "3", "0">> >> >>)
    @@ (<<"L", "1", "3", "+", "L", "1", "4">> :> << << "TH", <<"0", "8", ":", "0", "0">>, <<"0", "9", ":", "4", "0">> >> >>)
    @@ (<<"L", "1", "4", "+", "L", "1", "5">> :> << << "TH", <<"0", "9", ":", "0", "0">>, <<"1", "0", ":", "4", "0">> >> >>)
    @@ (<<"L", "1", "5", "+", "L", "1", "6">> :> << << "TH", <<"1", "0", ":", "0", "0">>, <<"1", "1", ":", "4", "0">> >> >>)
    @@ (<<"L", "1", "6", "+", "L", "1", "7">> :> << << "TH", <<"1", "1", ":", "0", "0">>, <<"1", "2", ":", "4", "0">> >> >>)
    @@ (<<"L", "1", "7", "+", "L", "1", "8">> :> << << "TH", <<"1", "2", ":", "0", "0">>, <<"1", "3", ":", "3", "0">> >> >>)
    @@ (<<"L", "1", "9", "+", "L", "2", "0">> :> << << "FR", <<"0", "8", ":", "0", "0">>, <<"0", "9", ":", "4", "0">> >> >>)
    @@ (<<"L", "2", "0", "+", "L", "2", "1">> :> << << "FR", <<"0", "9", ":", "0", "0">>, <<"1", "0", ":", "4", "0">> >> >>)
    @@ (<<"L", "2", "1", "+", "L", "2", "2">> :> << << "FR", <<"1", "0", ":", "0", "0">>, <<"1", "1", ":", "4", "0">> >> >>)
    @@ (<<"L", "2", "2", "+", "L", "2", "3">> :> << << "FR", <<"1", "1", ":", "0", "0">>, <<"1", "2", ":", "4", "0">> >> >>)
    @@ (<<"L", "2", "3", "+", "L", "2", "4">> :> << << "FR", <<"1", "2", ":", "0", "0">>, <<"1", "3", ":", "3", "0">> >> >>)
    @@ (<<"L", "2", "5", "+", "L", "2", "6">> :> << << "SA", <<"0", "8", ":", "0", "0">>, <<"0", "9", ":", "4", "0">> >> >>)
    @@ (<<"L", "2", "6", "+", "L", "2", "7">> :> << << "SA", <<"0", "9", ":", "0", "0">>, <<"1", "0", ":", "4", "0">> >> >>)
    @@ (<<"L", "2", "7", "+", "L", "2", "8">> :> << << "SA", <<"1", "0", ":", "0", "0">>, <<"1", "1", ":", "4", "0">> >> >>)
    @@ (<<"L", "2", "8", "+", "L", "2", "9">> :> << << "SA", <<"1", "1", ":", "0", "0">>, <<"1", "2", ":", "4", "0">> >> >>)
    @@ (<<"L", "2", "9", "+", "L", "3", "0">> :> << << "SA", <<"1", "2", ":", "0", "0">>, <<"1", "3", ":", "3", "0">> >> >>)
    @@ (<<"L", "3", "1", "+", "L", "3", "2">> :> << << "TU", <<"1", "4", ":", "0", "0">>, <<"1", "5", ":", "4", "0">> >> >>)
    @@ (<<"L", "3", "2", "+", "L", "3", "3">> :> << << "TU", <<"1", "5", ":", "0", "0">>, <<"1", "6", ":", "4", "0">> >> >>)
    @@ (<<"L", "3", "3", "+", "L", "3", "4">> :> << << "TU", <<"1", "6", ":", "0", "0">>, <<"1", "7", ":", "4", "0">> >> >>)
    @@ (<<"L", "3", "4", "+", "L", "3", "5">> :> << << "TU", <<"1", "7", ":", "0", "0">>, <<"1", "8", ":", "4", "0">> >> >>)
    @@ (<<"L", "3", "5", "+", "L", "3", "6">> :> << << "TU", <<"1", "8", ":", "0", "0">>, <<"1", "9", ":", "3", "0">> >> >>)
    @@ (<<"L", "3", "7", "+", "L", "3", "8">> :> << << "WE", <<"1", "4", ":", "0", "0">>, <<"1", "5", ":", "4", "0">> >> >>)
    @@ (<<"L", "3", "8", "+", "L", "3", "9">> :> << << "WE", <<"1", "5", ":", "0", "0">>, <<"1", "6", ":", "4", "0">> >> >>)
    @@ (<<"L", "3", "9", "+", "L", "4", "0">> :> << << "WE", <<"1", "6", ":", "0", "0">>, <<"1", "7", ":", "4", "0">> >> >>)
    @@ (<<"L", "4", "0", "+", "L", "4", "1">> :> << << "WE", <<"1", "7", ":", "0", "0">>, <<"1", "8", ":", "4", "0">> >> >>)
    @@ (<<"L", "4", "1", "+", "L", "4", "2">> :> << << "WE", <<"1", "8", ":", "0", "0">>, <<"1", "9", ":", "3", "0">> >> >>)
    @@ (<<"L", "4", "3", "+", "L", "4", "4">> :> << << "TH", <<"1", "4", ":", "0", "0">>, <<"1", "5", ":", "4", "0">> >> >>)
    @@ (<<"L", "4", "4", "+", "L", "4", "5">> :> << << "TH", <<"1", "5", ":", "0", "0">>, <<"1", "6", ":", "4", "0">> >> >>)
    @@ (<<"L", "4", "5", "+", "L", "4", "6">> :> << << "TH", <<"1", "6", ":", "0", "0">>, <<"1", "7", ":", "4", "0">> >> >>)
    @@ (<<"L", "4", "6", "+", "L", "4", "7">> :> << << "TH", <<"1", "7", ":", "0", "0">>, <<"1", "8", ":", "4", "0">> >> >>)
    @@ (<<"L", "4", "7", "+", "L", "4", "8">> :> << << "TH", <<"1", "8", ":", "0", "0">>, <<"1", "9", ":", "3", "0">> >> >>)
    @@ (<<"L", "4", "9", "+", "L", "5", "0">> :> << << "FR", <<"1", "4", ":", "0", "0">>, <<"1", "5", ":", "4", "0">> >> >>)
    @@ (<<"L", "5", "0", "+", "L", "5", "1">> :> << << "FR", <<"1", "5", ":", "0", "0">>, <<"1", "6", ":", "4", "0">> >> >>)
    @@ (<<"L", "5", "1", "+", "L", "5", "2">> :> << << "FR", <<"1", "6", ":", "0", "0">>, <<"1", "7", ":", "4", "0">> >> >>)
    @@ (<<"L", "5", "2", "+", "L", "5", "3">> :> << << "FR", <<"1", "7", ":", "0", "0">>, <<"1", "8", ":", "4", "0">> >> >>)
    @@ (<<"L", "5", "3", "+", "L", "5", "4">> :> << << "FR", <<"1", "8", ":", "0", "0">>, <<"1", "9", ":", "3", "0">> >> >>)
    @@ (<<"L", "5", "5", "+", "L", "5", "6">> :> << << "SA", <<"1", "4", ":", "0", "0">>, <<"1", "5", ":", "4", "0">> >> >>)
    @@ (<<"L", "5", "6", "+", "L", "5", "7">> :> << << "SA", <<"1", "5", ":", "0", "0">>, <<"1", "6", ":", "4", "0">> >> >>)
    @@ (<<"L", "5", "7", "+", "L", "5", "8">> :> << << "SA", <<"1", "6", ":", "0", "0">>, <<"1", "7", ":", "4", "0">> >> >>)
    @@ (<<"L", "5", "8", "+", "L", "5", "9">> :> << << "SA", <<"1", "7", ":", "0", "0">>, <<"1", "8", ":", "4", "0">> >> >>)
    @@ (<<"L", "5", "9", "+", "L", "6", "0">> :> << << "SA", <<"1", "8", ":", "0", "0">>, <<"1", "9", ":", "3", "0">> >> >>)

weekday_map ==
    ("MO" :> 0) @@ ("TU" :> 1) @@ ("WE" :> 2) @@ ("TH" :> 3) @@
    ("FR" :> 4) @@ ("SA" :> 5) @@ ("SU" :> 6)

\* ------------------------------------------------------------------------
\* State
\* ------------------------------------------------------------------------

VARIABLES
    catalogs,             \* the tables the module holds: "source", the tables as written
    service,              \* whether a service handle is passed
    calendar_id,          \* whether a calendar id is passed
    df,                   \* the rows of the frame, in order
    index,                \* df.index: the label of each row, in order
    semester_start_date,  \* date ordinal
    timezone,
    notifications,        \* minutes, in order
    pc,                   \* position in create_calendar_events
    i,                    \* rows iterated so far
    success,              \* the local flag
    result,               \* "none" until the function returns, then "True"/"False"
    progress,             \* every value handed to st.progress / progress_bar.progress
    inserted,             \* every event body inserted, with the position of its row
    warnings,             \* every st.warning, with the position of its row
    errors,               \* every st.error of the except clause, likewise
    outcome,              \* history: how each iterated row left the loop body
    probe,                \* the last call examined on its own, or the last batch of the session
    session,              \* st.session_state of the browser session
    query_params          \* the query parameters of the page URL

vars ==
    << catalogs, service, calendar_id, df, index, semester_start_date, timezone,
       notifications, pc, i, success, result, progress, inserted, warnings,
       errors, outcome, probe, session, query_params >>

inputVars ==
    << catalogs, service, calendar_id, df, index, semester_start_date, timezone,
       notifications >>

runVars ==
    << pc, i, success, result, progress, inserted, warnings, errors, outcome >>

wizardVars == << session, query_params >>

\* Variant: a catalog whose entry A1 has the times of its first triple
\* exchanged.
TheoryCatalogSwapped ==
    [theory_mapping EXCEPT ![<<"A", "1">>] =
        << << @[1][1], @[1][3], @[1][2] >>, @[2] >>]

\* The catalogs the run reads.
TheoryCatalog == theory_mapping

LabCatalog == lab_mapping

\* dict.get(key): the value, or None.  None is modelled as the empty
\* sequence: the code only tests "not mapping", true of both.
DictGet(m, key) == IF key \in DOMAIN m THEN m[key] ELSE << >>

\* ------------------------------------------------------------------------
\* 3) Timetable helpers
\* ------------------------------------------------------------------------

\* date.weekday() of a date ordinal: Monday is 0 (ordinal 1 is a Monday).
weekday(d) == (d + 6) % 7

\* Variant: the comparison written "<= 0", which moves a start date that
\* already falls on the weekday a week ahead.
get_first_date_on_or_afterEager(start_date, target_weekday) ==
    LET days_ahead == target_weekday - weekday(start_date)
    IN  start_date + (IF days_ahead <= 0 THEN days_ahead + 7 ELSE days_ahead)

get_first_date_on_or_after(start_date, target_weekday) ==
    LET days_ahead == target_weekday - weekday(start_date)
    IN  start_date + (IF days_ahead < 0 THEN days_ahead + 7 ELSE days_ahead)

\* ------------------------------------------------------------------------
\* 4) Calendar creation: the pure part of create_calendar_events
\* ------------------------------------------------------------------------

\* The business-rule filter on the trimmed course and venue.
EmbeddedProject == <<"E","M","B","E","D","D","E","D"," ","P","R","O","J","E","C","T">>

NilOnl == <<"N","I","L","-","O","N","L">>

\* Variant: the markers compared without upper().
IsSkippedCaseSensitive(course, venue) ==
    Contains(course, EmbeddedProject) \/ Contains(venue, NilOnl)

IsSkipped(course, venue) ==
    Contains(upper(course), EmbeddedProject) \/ Contains(upper(venue), NilOnl)

\* Variant: the summary shows the slot field as it is resolved, uppercased.
SummaryUppercased(course, slot_field) ==
    course \o <<" ", "[">> \o upper(slot_field) \o <<"]">>

\* summary = f"{course} [{slot_field}]"
Summary(course, slot_field) == course \o <<" ", "[">> \o slot_field \o <<"]">>

NonBlank(tok) == strip(tok) # << >>

\* slot_tokens = [tok.strip().upper() for tok in slot_field.split("+") if tok.strip()]
slot_tokens(slot_field) ==
    LET kept == SelectSeq(split(slot_field, "+"), NonBlank)
    IN  [k \in 1..Len(kept) |-> upper(strip(kept[k]))]

\* tok in lab_mapping or tok.startswith("L")
IsLabToken(tok) == tok \in DOMAIN LabCatalog \/ startswith(tok, "L")

\* The scan of the tokens: the first lab token is the key (lab_key None is
\* the empty sequence).
TokenScan(slot_field) ==
    LET toks == slot_tokens(slot_field)
    IN  IF \E k \in 1..Len(toks) : IsLabToken(toks[k])
        THEN [is_lab |-> TRUE,
              lab_key |-> toks[CHOOSE k \in 1..Len(toks) :
                                  /\ IsLabToken(toks[k])
                                  /\ \A j \in 1..(k - 1) : ~IsLabToken(toks[j])]]
        ELSE [is_lab |-> FALSE, lab_key |-> << >>]

\* Variant: the whole-field test left out.
ClassifyTokensOnly(slot_field) == TokenScan(slot_field)

\* is_lab and lab_key of a trimmed slot field.
Classify(slot_field) ==
    IF upper(slot_field) \in DOMAIN LabCatalog
    THEN [is_lab |-> TRUE, lab_key |-> upper(slot_field)]
    ELSE TokenScan(slot_field)

\* sh, sm = map(int, s.split(":")): whether it returns (ValueError otherwise).
TimeParses(s) ==
    LET parts == split(s, ":")
    IN  Len(parts) = 2 /\ IntOk(parts[1]) /\ IntOk(parts[2])

Hour(s) == int(split(s, ":")[1])

Minute(s) == int(split(s, ":")[2])

\* datetime.replace(hour=h, minute=m): whether it returns (ValueError otherwise).
ClockOk(s) == Hour(s) \in 0..23 /\ Minute(s) \in 0..59

\* The exception building the event of one triple raises, "none" if none,
\* in the order the statements run.
TripleExc(triple) ==
    IF ~TimeParses(triple[2]) \/ ~TimeParses(triple[3]) THEN "ValueError"
    ELSE IF triple[1] \notin DOMAIN weekday_map THEN "KeyError"
    ELSE IF ~ClockOk(triple[2]) \/ ~ClockOk(triple[3]) THEN "ValueError"
    ELSE "none"

\* Variant: the list comprehension starting at the second offset.
RemindersSkipFirst(notifs) ==
    [useDefault |-> FALSE,
     overrides |-> [k \in 1..(Len(notifs) - 1) |->
                       [method |-> "popup", minutes |-> notifs[k + 1]]]]

\* overrides and reminders
Reminders(notifs) ==
    [useDefault |-> FALSE,
     overrides |-> [k \in 1..Len(notifs) |-> [method |-> "popup", minutes |-> notifs[k]]]]

\* f"RRULE:FREQ=WEEKLY;BYDAY={day_code}": the parts of the rule by name.
RRule(day_code) == [FREQ |-> "WEEKLY", BYDAY |-> day_code]

\* datetime.combine(first_date, datetime.min.time()).replace(hour, minute),
\* as isoformat() writes it: date, hour, minute (seconds are zero).
DateTime(date, s) == [date |-> date, hour |-> Hour(s), minute |-> Minute(s)]

\* Variant: the first occurrence placed on the semester start date itself.
EventOnStartDate(row, triple, start_date, tz, notifs) ==
    [summary     |-> Summary(strip(row.Course), strip(row.Slot)),
     location    |-> strip(row.Venue),
     description |-> strip(row.Faculty),
     start       |-> [dateTime |-> DateTime(start_date, triple[2]), timeZone |-> tz],
     end         |-> [dateTime |-> DateTime(start_date, triple[3]), timeZone |-> tz],
     recurrence  |-> << RRule(triple[1]) >>,
     reminders   |-> Reminders(notifs)]

\* The event body of one triple of a row.
Event(row, triple, start_date, tz, notifs) ==
    LET first_date == get_first_date_on_or_after(start_date, weekday_map[triple[1]])
    IN  [summary     |-> Summary(strip(row.Course), strip(row.Slot)),
         location    |-> strip(row.Venue),
         description |-> strip(row.Faculty),
         start       |-> [dateTime |-> DateTime(first_date, triple[2]), timeZone |-> tz],
         end         |-> [dateTime |-> DateTime(first_date, triple[3]), timeZone |-> tz],
         recurrence  |-> << RRule(triple[1]) >>,
         reminders   |-> Reminders(notifs)]

\* The steps of "for day_code, start_str, end_str in mapping": per triple an
\* insert of its event, or the exception that building it raises.
TripleSteps(mapping, row, start_date, tz, notifs) ==
    [k \in 1..Len(mapping) |->
        IF TripleExc(mapping[k]) = "none"
        THEN [kind |-> "insert", v |-> Event(row, mapping[k], start_date, tz, notifs)]
        ELSE [kind |-> "raise", v |-> TripleExc(mapping[k])]]

\* The steps of the lab branch.
LabSteps(lab_key, row, start_date, tz, notifs) ==
    LET mapping == DictGet(LabCatalog, lab_key)
    IN  IF mapping = << >>
        THEN << [kind |-> "warn", v |-> [slot |-> "Lab", key |-> lab_key]],
                [kind |-> "continue", v |-> "lab"] >>
        ELSE TripleSteps(mapping, row, start_date, tz, notifs)

\* The steps of one token of the theory branch.
\* Variant: theory_mapping[tok] in place of theory_mapping.get(tok), a
\* KeyError for a missing token.
TheoryTokenStepsStrict(tok, row, start_date, tz, notifs) ==
    LET mapping == DictGet(TheoryCatalog, tok)
    IN  IF mapping = << >>
        THEN << [kind |-> "raise", v |-> "KeyError"] >>
        ELSE TripleSteps(mapping, row, start_date, tz, notifs)

TheoryTokenSteps(tok, row, start_date, tz, notifs) ==
    LET mapping == DictGet(TheoryCatalog, tok)
    IN  IF mapping = << >>
        THEN << [kind |-> "warn", v |-> [slot |-> "Theory", key |-> tok]] >>
        ELSE TripleSteps(mapping, row, start_date, tz, notifs)

\* Variant: only the first token of the field is resolved.
TheoryStepsFirstTokenOnly(toks, row, start_date, tz, notifs) ==
    IF toks = << >> THEN << >>
    ELSE TheoryTokenSteps(Head(toks), row, start_date, tz, notifs)

\* Variant: the tokens are resolved last to first.
RECURSIVE TheoryStepsReversed(_, _, _, _, _)
TheoryStepsReversed(toks, row, start_date, tz, notifs) ==
    IF toks = << >> THEN << >>
    ELSE TheoryStepsReversed(Tail(toks), row, start_date, tz, notifs)
         \o TheoryTokenSteps(Head(toks), row, start_date, tz, notifs)

\* The steps of "for tok in slot_tokens".
RECURSIVE TheorySteps(_, _, _, _, _)
TheorySteps(toks, row, start_date, tz, notifs) ==
    IF toks = << >> THEN << >>
    ELSE TheoryTokenSteps(Head(toks), row, start_date, tz, notifs)
         \o TheorySteps(Tail(toks), row, start_date, tz, notifs)

\* The steps of the try block for a row that is not skipped, in order.
RowSteps(row, start_date, tz, notifs) ==
    LET slot_field == strip(row.Slot)
        c == Classify(slot_field)
    IN  IF c.is_lab
        THEN LabSteps(c.lab_key, row, start_date, tz, notifs)
        ELSE TheorySteps(slot_tokens(slot_field), row, start_date, tz, notifs)

\* Number of insert steps among the first p steps.
InsertsUpTo(steps, p) == Cardinality({q \in 1..p : steps[q].kind = "insert"})

\* Whether the try block ends at step p: the step raises, or is the
\* continue of the lab branch, or is the insert the service fails (the
\* fail-th one; 0: the service fails none).
EndsAt(steps, fail, p) ==
    \/ steps[p].kind = "raise"
    \/ steps[p].kind = "continue"
    \/ steps[p].kind = "insert" /\ fail > 0 /\ InsertsUpTo(steps, p) = fail

\* The first step the try block does not complete (Len + 1: it completes all).
EndOf(steps, fail) ==
    IF \E p \in 1..Len(steps) : EndsAt(steps, fail, p)
    THEN CHOOSE p \in 1..Len(steps) :
            EndsAt(steps, fail, p) /\ \A q \in 1..(p - 1) : ~EndsAt(steps, fail, q)
    ELSE Len(steps) + 1

IsInsert(step) == step.kind = "insert"

IsWarn(step) == step.kind = "warn"

\* What running the try block does: the events inserted, the warnings
\* shown, the exception raised ("none" if none) and whether the row left
\* by continue.
RunSteps(steps, fail) ==
    LET e == EndOf(steps, fail)
        done == SubSeq(steps, 1, e - 1)
        ins == SelectSeq(done, IsInsert)
        wrn == SelectSeq(done, IsWarn)
    IN  [events    |-> [k \in 1..Len(ins) |-> ins[k].v],
         warnings  |-> [k \in 1..Len(wrn) |-> wrn[k].v],
         exc       |-> IF e > Len(steps) \/ steps[e].kind = "continue" THEN "none"
                       ELSE IF steps[e].kind = "raise" THEN steps[e].v
                       ELSE "HttpError",
         continued |-> e <= Len(steps) /\ steps[e].kind = "continue"]

\* except Exception as e: the exceptions the clause catches.
\* Variant: "except ValueError".
ExceptCatchesValueErrorOnly(exc) == exc = "ValueError"

ExceptCatches(exc) == TRUE

\* The flag after the try statement of one row.
\* Variant: the flag assigned by every row, so that the last row decides.
SuccessAfterLastRowOnly(flag, exc) == exc = "none"

SuccessAfter(flag, exc) == IF exc # "none" THEN FALSE ELSE flag

\* Variant: idx in place of idx + 1.
ProgressValNoPlusOne(idx, total_rows) == (idx * 100) \div total_rows

\* 2 ** e
RECURSIVE Pow2(_)
Pow2(e) == IF e = 0 THEN 1 ELSE 2 * Pow2(e - 1)

\* (2 ** e) % 100
RECURSIVE Pow2Mod100(_)
Pow2Mod100(e) == IF e = 0 THEN 1 ELSE (2 * Pow2Mod100(e - 1)) % 100

\* For k >= 100: the a with 100 * 2**a <= k < 200 * 2**a, counted up from a.
RECURSIVE ScaleDown(_, _)
ScaleDown(k, a) ==
    IF k \div Pow2(a + 1) >= 100 THEN ScaleDown(k, a + 1) ELSE a

\* For 0 < k < 100: the b with 100 <= k * 2**b < 200, counted up from b.
RECURSIVE ScaleUp(_, _)
ScaleUp(k, b) == IF k * Pow2(b) >= 100 THEN b ELSE ScaleUp(k, b + 1)

\* Whether the double (k / 100) * 100 is below the whole number k, as
\* 0.58 * 100 is 57.99999999999999.  The quotient k / 100 is rounded to a
\* 53-bit significand m = round(k * 2**e / 100), off by d / 100 where
\* -d or 100 - d is the remainder r of k * 2**e by 100; the product
\* m * 100 = k * 2**e + d, with |d| <= 50, is rounded to 53 bits again, in
\* units of 64 when it is below 2**59 and of 128 otherwise, and k * 2**e
\* is itself a multiple of 128.  So the product is rounded back to k
\* unless the unit is 64 and d < -32, that is r in 33 .. 50 (r = 32 is a
\* tie, which goes to the even neighbour k).
FloatShort(k) ==
    /\ k > 0
    /\ LET down == IF k >= 100 THEN ScaleDown(k, 0) ELSE 0
           up   == IF k >= 100 THEN 0 ELSE ScaleUp(k, 0)
           e    == 52 - down + up
           lead == IF k >= 100 THEN k \div Pow2(down) ELSE k * Pow2(up)
           rest == IF k >= 100 THEN k % Pow2(down) ELSE 0
           r    == ((k % 100) * Pow2Mod100(e)) % 100
       IN  /\ r >= 33
           /\ r <= 50
           /\ \/ lead < 128
              \/ lead = 128 /\ rest = 0

\* int((n / total_rows) * 100) for 0 <= n < 2**31.  When n * 100 / total_rows is a
\* whole number k the quotient n / total_rows is the double k / 100 and
\* FloatShort decides; otherwise the double is within 2**-14 / total_rows
\* of the exact value, which is at least 1 / total_rows away from a whole
\* number, and int() gives the exact quotient rounded down.
ProgressOf(n, total_rows) ==
    LET k == (n * 100) \div total_rows
    IN  IF (n * 100) % total_rows = 0 /\ FloatShort(k) THEN k - 1 ELSE k

\* progress_val = int(((idx + 1) / total_rows) * 100): int() drops the
\* fraction, towards zero for a negative label as well.
ProgressVal(idx, total_rows) ==
    IF idx + 1 >= 0
    THEN ProgressOf(idx + 1, total_rows)
    ELSE 0 - ProgressOf(0 - (idx + 1), total_rows)

Min(a, b) == IF a <= b THEN a ELSE b

\* A sequence of values, each tagged with the position (from 0) of the row
\* it belongs to.
Tagged(pos, vals) == [k \in 1..Len(vals) |-> [row |-> pos, body |-> vals[k]]]

\* The warnings of a row with the row label their text names:
\* "... not found. Skipping row {idx}."
WithRowLabel(ws, idx) ==
    [k \in 1..Len(ws) |-> [slot |-> ws[k].slot, key |-> ws[k].key, idx |-> idx]]

\* ------------------------------------------------------------------------
\* Inputs
\* ------------------------------------------------------------------------

CourseA == <<" ", "C", "S", "E", "1", "0", "0", "1", " ">>

CourseProject ==
    <<"E", "C", "E", "2", " ", "E", "m", "b", "e", "d", "d", "e", "d", " ",
      "P", "r", "o", "j", "e", "c", "t">>

VenueA == <<"\t", "G", "0", "1", " ">>

VenueOnline == <<"n", "i", "l", "-", "o", "n", "l">>

FacultyA == <<"D", "R", " ", "R", "A", "O">>

SlotTheory == <<"A", "1", "+", "T", "A", "1">>

SlotLab == <<"l", "1", "+", "l", "2">>

SlotLabUnknown == <<"L", "9", "9">>

SlotTheoryPartial == <<"Q", "7", "+", "T", "A", "1">>

SlotEmpty == << >>

\* A cell that holds no string: the NaN pandas gives for an empty CSV
\* cell, None, a number.  It is told apart from every string, whose
\* elements are single characters.
NaN == << "NaN" >>

\* The cell of a column the frame does not have.
NoColumn == << "KeyError" >>

\* What row[column].strip() raises on a cell, "none" if nothing.
CellExc(cell) ==
    IF cell = NoColumn THEN "KeyError"
    ELSE IF cell = NaN THEN "AttributeError"
    ELSE "none"

\* What the four assignments of course, slot_field, venue and faculty
\* raise, in their order, "none" if nothing.
FieldsExc(row) ==
    IF CellExc(row.Course) # "none" THEN CellExc(row.Course)
    ELSE IF CellExc(row.Slot) # "none" THEN CellExc(row.Slot)
    ELSE IF CellExc(row.Venue) # "none" THEN CellExc(row.Venue)
    ELSE CellExc(row.Faculty)

MkRow(course, slot, venue) ==
    [Course |-> course, Slot |-> slot, Venue |-> venue, Faculty |-> FacultyA]

\* The rows a timetable is made of.
Rows ==
    { MkRow(CourseA, SlotTheory, VenueA),
      MkRow(CourseA, SlotLab, VenueA),
      MkRow(CourseA, SlotLabUnknown, VenueA),
      MkRow(CourseA, SlotTheoryPartial, VenueA),
      MkRow(CourseProject, SlotTheory, VenueA),
      MkRow(CourseA, SlotLabUnknown, VenueOnline),
      MkRow(CourseProject, SlotEmpty, VenueA) }

\* The labels pd.read_csv and pd.DataFrame give n rows: 0 .. n-1.
RangeIndex(n) == [k \in 1..n |-> k - 1]

\* The labels of n rows left after the first row of n + 1 was deleted in
\* the data editor: 1 .. n.
GappedIndex(n) == [k \in 1..n |-> k]

IndexChoices(n) == { RangeIndex(n), GappedIndex(n) }

Timetables == UNION { [1..n -> Rows] : n \in 0..MaxRows }

\* 2025-01-27, a Monday, and 2025-01-29, a Wednesday.
StartDates == {739278, 739280}

Timezones == {"Asia/Kolkata", "UTC"}

NotificationChoices == { << >>, <<10, 5, 5>> }

NoProbe == [op |-> "none"]

\* st.session_state with no key set: "has" is the set of keys present, the
\* other fields are the values of the keys (step 0, token "absent" and the
\* empty values stand for what an absent key has).
EmptySession ==
    [has |-> {}, step |-> 0, google_token |-> "absent", df |-> << >>,
     index |-> << >>,
     semester_start |-> 0, timezone |-> "", notification_times |-> << >>]

\* The function called on its own, outside a browser session.
NoWizard ==
    /\ session = EmptySession
    /\ query_params = [code |-> FALSE]

\* ------------------------------------------------------------------------
\* create_calendar_events
\* ------------------------------------------------------------------------

InitRun ==
    /\ pc = "ready"
    /\ i = 0
    /\ success = TRUE
    /\ result = "none"
    /\ progress = << >>
    /\ inserted = << >>
    /\ warnings = << >>
    /\ errors = << >>
    /\ outcome = << >>

InitInputs ==
    /\ service \in BOOLEAN
    /\ calendar_id \in BOOLEAN
    /\ df \in Timetables
    /\ index = RangeIndex(Len(df))
    /\ semester_start_date \in StartDates
    /\ timezone \in Timezones
    /\ notifications \in NotificationChoices

Init ==
    /\ catalogs = "source"
    /\ InitInputs
    /\ InitRun
    /\ probe = NoProbe
    /\ NoWizard

\* Variant: the entry test looking at the service only.
NotCallableServiceOnly(svc, cal) == ~svc

\* if not service or not calendar_id: return False
NotCallable(svc, cal) == ~svc \/ ~cal

\* The entry of the function up to the loop.
Call ==
    /\ pc = "ready"
    /\ IF NotCallable(service, calendar_id)
       THEN /\ pc' = "returned"
            /\ result' = "False"
            /\ UNCHANGED << i, success, progress, inserted, warnings, errors, outcome >>
       ELSE /\ pc' = "loop"
            /\ progress' = << 0 >>
            /\ success' = TRUE
            /\ UNCHANGED << i, result, inserted, warnings, errors, outcome >>
    /\ UNCHANGED << inputVars, probe, wizardVars >>

\* One iteration of "for idx, row in df.iterrows()".
Row ==
    /\ pc = "loop"
    /\ i < Len(df)
    /\ LET idx == index[i + 1]
           row == df[i + 1]
           total_rows == Len(df)
           steps == RowSteps(row, semester_start_date, timezone, notifications)
       IN  IF FieldsExc(row) # "none"
           THEN /\ pc' = "raised"
                /\ outcome' = Append(outcome, "raised")
                /\ UNCHANGED << i, success, result, progress, inserted, warnings, errors >>
           ELSE IF IsSkipped(strip(row.Course), strip(row.Venue))
           THEN /\ i' = i + 1
                /\ outcome' = Append(outcome, "skipped")
                /\ UNCHANGED << pc, success, result, progress, inserted, warnings, errors >>
           ELSE \E fail \in 0..InsertsUpTo(steps, EndOf(steps, 0) - 1) :
                  LET r == RunSteps(steps, fail)
                  IN  /\ inserted' = inserted \o Tagged(i, r.events)
                      /\ warnings' = warnings \o Tagged(i, WithRowLabel(r.warnings, idx))
                      /\ result' = result
                      /\ IF r.exc # "none" /\ ~ExceptCatches(r.exc)
                         THEN /\ pc' = "raised"
                              /\ outcome' = Append(outcome, "raised")
                              /\ UNCHANGED << i, success, progress, errors >>
                         ELSE /\ pc' = pc
                              /\ i' = i + 1
                              /\ success' = SuccessAfter(success, r.exc)
                              /\ errors' = IF r.exc # "none"
                                           THEN Append(errors, [row |-> i, body |-> r.exc])
                                           ELSE errors
                              /\ progress' = IF r.continued
                                             THEN progress
                                             ELSE Append(progress,
                                                         Min(ProgressVal(idx, total_rows), 100))
                              /\ outcome' = Append(outcome,
                                                   IF r.exc # "none" THEN "error"
                                                   ELSE IF r.continued THEN "lab_miss"
                                                   ELSE "done")
    /\ UNCHANGED << inputVars, probe, wizardVars >>

\* After the loop: the closing progress update and the return.
Finish ==
    /\ pc = "loop"
    /\ i = Len(df)
    /\ progress' = Append(progress, 100)
    /\ result' = IF success THEN "True" ELSE "False"
    /\ pc' = "returned"
    /\ UNCHANGED << i, success, inserted, warnings, errors, outcome, inputVars, probe, wizardVars >>

Next == Call \/ Row \/ Finish

Spec == Init /\ [][Next]_vars

\* The program over timetables of one row, with further slot fields: a
\* token written twice, a lone unknown theory token, an empty field, a
\* token in small letters between a vertical tab (U+000B) and a next-line
\* control (U+0085), and a letter whose capital lies beyond U+00FF.
SlotTheoryRepeated == <<"T", "A", "1", "+", "T", "A", "1">>

SlotTheoryUnknown == <<"Q", "7">>

SlotTheoryPadded == <<"", "t", "a", "1", "">>

SlotTheoryDiaeresis == <<"ÿ", "1">>

SingleRows ==
    Rows \cup { MkRow(CourseA, SlotTheoryRepeated, VenueA),
                MkRow(CourseA, SlotTheoryUnknown, VenueA),
                MkRow(CourseA, SlotEmpty, VenueA),
                MkRow(CourseA, SlotTheoryPadded, VenueA),
                MkRow(CourseA, SlotTheoryDiaeresis, VenueA) }

InitSingle ==
    /\ catalogs = "source"
    /\ service = TRUE
    /\ calendar_id = TRUE
    /\ df \in { << r >> : r \in SingleRows }
    /\ index \in IndexChoices(1)
    /\ semester_start_date \in StartDates
    /\ timezone \in Timezones
    /\ notifications \in NotificationChoices
    /\ InitRun
    /\ probe = NoProbe
    /\ NoWizard

SpecSingle == InitSingle /\ [][Next]_vars

\* The program over frames as pandas hands them over: a row may have an
\* empty cell (NaN), and the labels may be those left by a deleted row.
FrameRows ==
    { MkRow(CourseA, SlotTheoryPartial, VenueA),
      MkRow(CourseA, SlotLabUnknown, VenueA),
      MkRow(CourseProject, SlotTheory, VenueA),
      MkRow(CourseA, NaN, VenueA) }

Frames == UNION { [1..n -> FrameRows] : n \in 0..MaxRows }

InitFrames ==
    /\ catalogs = "source"
    /\ service = TRUE
    /\ calendar_id = TRUE
    /\ df \in Frames
    /\ index \in IndexChoices(Len(df))
    /\ semester_start_date = 739278
    /\ timezone = "Asia/Kolkata"
    /\ notifications = <<10, 5, 5>>
    /\ InitRun
    /\ probe = NoProbe
    /\ NoWizard

SpecFrames == InitFrames /\ [][Next]_vars

\* ------------------------------------------------------------------------
\* main(): the wizard, one script run per action
\* ------------------------------------------------------------------------

\* number_input(min_value=0, max_value=1440)
MaxMinutes == 1440

\* The values entered in a notification field: 0, the defaults 5 and 10,
\* and the largest value the field accepts.
NotifInputs == {0, 5, 10, MaxMinutes}

\* The timetables uploaded or pasted: an empty one, one theory row, a lab
\* row followed by a row that is skipped.
WizardTimetables ==
    { << >>,
      << MkRow(CourseA, SlotTheoryPartial, VenueA) >>,
      << MkRow(CourseA, SlotLab, VenueA), MkRow(CourseProject, SlotTheory, VenueA) >> }

\* The stored credentials that creds.valid accepts: "valid" has a refresh
\* token, "valid_norefresh" has none; "expired" and "expired_norefresh"
\* are the same credentials after their expiry.
Usable(token) == token \in {"valid", "valid_norefresh"}

\* get_google_calendar_service(): the service it returns (TRUE) or None
\* (FALSE) and the token it leaves in the session.  Stored credentials
\* that have expired and hold a refresh token are refreshed (refresh_ok:
\* the refresh succeeds) and deleted when the refresh fails; expired
\* credentials without a refresh token are left where they are.  Without
\* usable credentials the code of the URL is exchanged (fetch_ok:
\* credentials.json is there and the exchange succeeds; with_refresh: the
\* response holds a refresh token), and the new credentials replace what
\* is stored.  fetched tells that the token is one this call obtained by
\* the exchange.
GetService(token, code, refresh_ok, fetch_ok, with_refresh) ==
    LET kept == IF token = "expired"
                THEN (IF refresh_ok THEN "valid" ELSE "absent")
                ELSE token
    IN  IF Usable(kept)
        THEN [service |-> TRUE, token |-> kept, fetched |-> FALSE]
        ELSE IF code /\ fetch_ok
        THEN [service |-> TRUE,
              token |-> IF with_refresh THEN "valid" ELSE "valid_norefresh",
              fetched |-> TRUE]
        ELSE [service |-> FALSE, token |-> kept, fetched |-> FALSE]

\* The session after get_google_calendar_service().
WithToken(s, token) ==
    [s EXCEPT !.google_token = token,
              !.has = IF token = "absent" THEN @ \ {"google_token"}
                      ELSE @ \cup {"google_token"}]

\* Variant: "Next -> Step 2" asking for the token only.
MayLeaveStep1TokenOnly(s) == "google_token" \in s.has

\* The two checks of "Next -> Step 2".
MayLeaveStep1(s) == "google_token" \in s.has /\ "df" \in s.has

\* Variant: every entered value is kept.
KeepOffsetAlways(m) == m >= 0

\* if m > 0: ntimes.append(m)
KeepOffset(m) == m > 0

\* The list the notification form builds from its three fields.
ntimes(m1, m2, m3) == SelectSeq(<< m1, m2, m3 >>, KeepOffset)

InitWizard ==
    /\ catalogs = "source"
    /\ service = FALSE
    /\ calendar_id = FALSE
    /\ df = << >>
    /\ index = << >>
    /\ semester_start_date = 739278
    /\ timezone = "Asia/Kolkata"
    /\ notifications = << >>
    /\ pc = "idle"
    /\ i = 0
    /\ success = TRUE
    /\ result = "none"
    /\ progress = << >>
    /\ inserted = << >>
    /\ warnings = << >>
    /\ errors = << >>
    /\ outcome = << >>
    /\ probe = NoProbe
    /\ session = EmptySession
    /\ query_params \in { [code |-> c] : c \in BOOLEAN }

\* A script run at step 1 (the first run sets step to 1): the service is
\* looked up, a timetable that was uploaded or pasted is stored, and
\* "Next -> Step 2", when clicked, moves on if its two checks pass.
RunStep1 ==
    /\ pc = "idle"
    /\ session.step \in {0, 1}
    /\ \E refresh_ok, fetch_ok, with_refresh, provided, click \in BOOLEAN :
       \E data \in WizardTimetables : \E labels \in IndexChoices(Len(data)) :
          LET gs == GetService(session.google_token, query_params.code,
                               refresh_ok, fetch_ok, with_refresh)
              s1 == [WithToken(session, gs.token) EXCEPT !.step = 1, !.has = @ \cup {"step"}]
              s2 == IF provided
                    THEN [s1 EXCEPT !.df = data, !.index = labels, !.has = @ \cup {"df"}]
                    ELSE s1
          IN  /\ click => session.step = 1
              /\ session' = IF click /\ MayLeaveStep1(s2) THEN [s2 EXCEPT !.step = 2] ELSE s2
    /\ UNCHANGED << inputVars, runVars, probe, query_params >>

\* A script run at step 2: the date of the date input is stored.
RunStep2 ==
    /\ pc = "idle"
    /\ session.step = 2
    /\ \E date_val \in StartDates, click \in BOOLEAN :
          session' = [session EXCEPT !.semester_start = date_val,
                                     !.has = @ \cup {"semester_start"},
                                     !.step = IF click THEN 3 ELSE @]
    /\ UNCHANGED << inputVars, runVars, probe, query_params >>

\* A script run at step 3: the time zone of the select box is stored.
RunStep3 ==
    /\ pc = "idle"
    /\ session.step = 3
    /\ \E tz \in Timezones, click \in BOOLEAN :
          session' = [session EXCEPT !.timezone = tz,
                                     !.has = @ \cup {"timezone"},
                                     !.step = IF click THEN 4 ELSE @]
    /\ UNCHANGED << inputVars, runVars, probe, query_params >>

\* A script run at step 4: the form stores its list when it is submitted.
RunStep4 ==
    /\ pc = "idle"
    /\ session.step = 4
    /\ \E m1, m2, m3 \in NotifInputs, submitted \in BOOLEAN :
          session' = IF submitted
                     THEN [session EXCEPT !.notification_times = ntimes(m1, m2, m3),
                                          !.has = @ \cup {"notification_times"},
                                          !.step = 5]
                     ELSE session
    /\ UNCHANGED << inputVars, runVars, probe, query_params >>

\* Variant: the token is kept whatever the result.
RemovesTokenNever(res) == FALSE

\* if success: ... del st.session_state["google_token"]
RemovesToken(res) == res = "True"

\* A script run at step 5 up to the call of create_calendar_events: the
\* service is looked up, and "Create Events Now", when clicked with a
\* service, gets the calendar (cal: an id came back) and calls the function
\* with the values of the session.
RunStep5 ==
    /\ pc = "idle"
    /\ session.step = 5
    /\ \E refresh_ok, fetch_ok, with_refresh, click, cal \in BOOLEAN :
          LET gs == GetService(session.google_token, query_params.code,
                               refresh_ok, fetch_ok, with_refresh)
          IN  /\ session' = WithToken(session, gs.token)
              /\ probe' = IF probe.op = "batch" /\ gs.fetched
                           THEN [probe EXCEPT !.reauth = TRUE]
                           ELSE probe
              /\ IF gs.service /\ click /\ "df" \in session.has /\ cal
                 THEN /\ service' = TRUE
                      /\ calendar_id' = TRUE
                      /\ df' = session.df
                      /\ index' = session.index
                      /\ semester_start_date' = session.semester_start
                      /\ timezone' = session.timezone
                      /\ notifications' = session.notification_times
                      /\ pc' = "ready"
                      /\ i' = 0
                      /\ success' = TRUE
                      /\ result' = "none"
                      /\ progress' = << >>
                      /\ inserted' = << >>
                      /\ warnings' = << >>
                      /\ errors' = << >>
                      /\ outcome' = << >>
                      /\ UNCHANGED catalogs
                 ELSE UNCHANGED << inputVars, runVars >>
    /\ UNCHANGED query_params

\* The rest of that script run, after create_calendar_events returned:
\* the token is removed when the result is True.  probe keeps the batch
\* that ended: its result, its rows, and whether a token was obtained by
\* an exchange since.
Step5Done ==
    /\ pc = "returned"
    /\ session.step = 5
    /\ session' = IF RemovesToken(result) /\ "google_token" \in session.has
                  THEN WithToken(session, "absent")
                  ELSE session
    /\ probe' = [op |-> "batch", result |-> result, df |-> df, reauth |-> FALSE]
    /\ pc' = "idle"
    /\ UNCHANGED << inputVars, i, success, result, progress, inserted, warnings,
                    errors, outcome, query_params >>

\* Time passes and the stored credentials expire.
Expire ==
    /\ pc = "idle"
    /\ Usable(session.google_token)
    /\ session' = [session EXCEPT !.google_token =
                        IF @ = "valid" THEN "expired" ELSE "expired_norefresh"]
    /\ UNCHANGED << inputVars, runVars, probe, query_params >>

NextWizard ==
    \/ RunStep1 \/ RunStep2 \/ RunStep3 \/ RunStep4 \/ RunStep5
    \/ Call \/ Row \/ Finish \/ Step5Done \/ Expire

SpecWizard == InitWizard /\ [][NextWizard]_vars

\* The function called on its own with the timetables of the wizard.
InitDirect ==
    /\ catalogs = "source"
    /\ service \in BOOLEAN
    /\ calendar_id \in BOOLEAN
    /\ df \in WizardTimetables
    /\ index = RangeIndex(Len(df))
    /\ semester_start_date \in StartDates
    /\ timezone \in Timezones
    /\ notifications \in NotificationChoices
    /\ InitRun
    /\ probe = NoProbe
    /\ NoWizard

\* The function reached through the wizard or called on its own.
InitGate == InitWizard \/ InitDirect

SpecGate == InitGate /\ [][NextWizard]_vars

\* ------------------------------------------------------------------------
\* The pure functions on their own
\* ------------------------------------------------------------------------

InitProbe ==
    /\ catalogs = "source"
    /\ service = FALSE
    /\ calendar_id = FALSE
    /\ df = << >>
    /\ index = << >>
    /\ semester_start_date = 739278
    /\ timezone = "UTC"
    /\ notifications = << >>
    /\ InitRun
    /\ probe = NoProbe
    /\ NoWizard

ProbeDates == 739278..(739278 + ProbeDays)

\* A call get_first_date_on_or_after(d, w).
CallFirstDate ==
    /\ probe = NoProbe
    /\ \E d \in ProbeDates, w \in 0..6 :
          probe' = [op |-> "get_first_date_on_or_after", start_date |-> d,
                    target_weekday |-> w, ret |-> get_first_date_on_or_after(d, w)]
    /\ UNCHANGED << inputVars, runVars, wizardVars >>

NextDate == CallFirstDate

SpecDate == InitProbe /\ [][NextDate]_vars

SlotAlphabet == {"L", "l", "1", "2", "+", " ", "A"}

\* Raw slot fields: every string over the alphabet up to the bound, and
\* the fields of the timetable rows and of the catalog's examples.
ProbeSlots ==
    UNION { [1..n -> SlotAlphabet] : n \in 0..MaxSlotLen }
    \cup { SlotTheory, SlotLab, SlotLabUnknown, SlotTheoryPartial,
           <<"L", "1", "+", "L", "2">>,
           <<" ", "L", "3", "1", "+", "L", "3", "2", " ">>,
           <<"L", "1", " ", "+", " ", "L", "2">>,
           <<"A", "1", "+", "+", "T", "A", "1">>,
           SlotTheoryPadded, SlotTheoryDiaeresis,
           <<"U+2003", "l", "1", "+", "U+0131", " ">> }

\* The classification of row["Slot"] = raw.
CallClassify ==
    /\ probe = NoProbe
    /\ \E raw \in ProbeSlots :
          LET slot_field == strip(raw)
          IN  probe' = [op |-> "classify", raw |-> raw, slot_field |-> slot_field,
                        tokens |-> slot_tokens(slot_field),
                        is_lab |-> Classify(slot_field).is_lab,
                        lab_key |-> Classify(slot_field).lab_key]
    /\ UNCHANGED << inputVars, runVars, wizardVars >>

NextClassify == CallClassify

SpecClassify == InitProbe /\ [][NextClassify]_vars

\* ------------------------------------------------------------------------
\* Properties
\* ------------------------------------------------------------------------

\* The bodies of the entries of a tagged sequence that belong to row idx.
BodiesOf(seq, idx) ==
    LET F[k \in 0..Len(seq)] ==
            IF k = 0 THEN << >>
            ELSE IF seq[k].row = idx THEN Append(F[k - 1], seq[k].body)
            ELSE F[k - 1]
    IN  F[Len(seq)]

\* The rows of the timetables that carry a skip marker: the course
\* "ECE2 Embedded Project" and the venue "nil-onl".
HasSkipMarker(row) == row.Course = CourseProject \/ row.Venue = VenueOnline

\* The events a row emits when the service fails no insert.
FailureFreeEvents(row) ==
    IF HasSkipMarker(row) THEN << >>
    ELSE RunSteps(RowSteps(row, semester_start_date, timezone, notifications), 0).events

IsPrefix(s, t) == Len(s) <= Len(t) /\ s = SubSeq(t, 1, Len(s))

Ran == service /\ calendar_id

Returned == pc = "returned" /\ Ran

\* C1: a row that fails (its insert raises) does not stop the batch: no
\* exception leaves the function, every row is iterated by the time the
\* function returns, and every row after a failed one emits exactly its
\* failure-free events (a prefix of them if one of its own inserts fails).
C1_BatchSurvivesRowFailure ==
    /\ pc # "raised"
    /\ Returned => Len(outcome) = Len(df)
    /\ \A j \in 1..Len(outcome) :
          (\E k \in 1..(j - 1) : outcome[k] = "error") =>
              /\ outcome[j] # "error" =>
                    BodiesOf(inserted, j - 1) = FailureFreeEvents(df[j])
              /\ outcome[j] = "error" =>
                    /\ IsPrefix(BodiesOf(inserted, j - 1), FailureFreeEvents(df[j]))
                    /\ BodiesOf(inserted, j - 1) # FailureFreeEvents(df[j])

\* C1 witness: the function has returned, a row failed, and a later row
\* emitted all its events.
C1_Witness ==
    /\ Returned
    /\ \E j \in 1..Len(outcome) :
          /\ \E k \in 1..(j - 1) : outcome[k] = "error"
          /\ outcome[j] = "done"
          /\ Len(BodiesOf(inserted, j - 1)) = 3

\* C2: with a service and a calendar id, the function returns False exactly
\* when the except clause ran for some row; skipped rows and slot codes
\* missing from the catalogs do not make it False, and no rows give True.
C2_FalseIffSomeRowFailed ==
    Returned =>
        /\ result \in {"True", "False"}
        /\ result = "False" <=> errors # << >>
        /\ (\A j \in 1..Len(outcome) : outcome[j] \in {"skipped", "lab_miss", "done"})
              => result = "True"
        /\ df = << >> => result = "True"

\* C2 witness: a batch returned True although a row was skipped and a slot
\* code was missing from the catalog.
C2_Witness ==
    /\ Returned
    /\ result = "True"
    /\ \E j \in 1..Len(outcome) : outcome[j] = "skipped"
    /\ warnings # << >>

CountOf(seq, v) == Cardinality({k \in 1..Len(seq) : seq[k] = v})

ProgressInRangeAndMonotone ==
    /\ \A k \in 1..Len(progress) : progress[k] \in 0..100
    /\ \A k \in 1..(Len(progress) - 1) : progress[k] <= progress[k + 1]

\* C3 as claimed: the reported values stay within 0..100, never decrease,
\* and hold 100 exactly once, as the last value.
C3_HundredExactlyOnce ==
    /\ ProgressInRangeAndMonotone
    /\ Returned =>
          /\ progress[Len(progress)] = 100
          /\ CountOf(progress, 100) = 1

\* C3 amended: the reported values stay within 0..100 and never decrease.
\* A run that is given a service and a calendar id and returns ends them
\* with 100: over rows labelled 0 .. n-1, 100 is reported once when there
\* is no row or the last row leaves by continue, and twice (the last row's
\* update and the closing update) otherwise; over rows with other labels
\* it may be reported more often.
\* A run that a row with a cell that is no string ends by an exception
\* reports 0 and one value for each earlier row that did not leave by
\* continue, and no closing 100.
C3_ProgressEndsAtHundred ==
    /\ ProgressInRangeAndMonotone
    /\ Returned =>
          /\ progress[Len(progress)] = 100
          /\ CountOf(progress, 100) \in 1..(Len(df) + 1)
          /\ index = RangeIndex(Len(df)) =>
                /\ CountOf(progress, 100) \in {1, 2}
                /\ CountOf(progress, 100) = 2 <=>
                      (df # << >> /\ outcome[Len(df)] \in {"done", "error"})
    /\ pc = "raised" =>
          /\ outcome[Len(outcome)] = "raised"
          /\ Len(progress) =
                1 + Cardinality({k \in 1..Len(outcome) : outcome[k] \in {"done", "error"}})
          /\ (outcome = << "raised" >>) => progress = << 0 >>

\* C3 witness: a run of two rows or more that reported 100 twice.
C3_Witness ==
    /\ Returned
    /\ Len(df) >= 2
    /\ CountOf(progress, 100) = 2

\* C4: get_first_date_on_or_after(d, w) lies in d..d+6 and falls on
\* weekday w; it is d when d falls on w.
C4_FirstDateInWeekOnWeekday ==
    probe.op = "get_first_date_on_or_after" =>
        /\ probe.start_date <= probe.ret
        /\ probe.ret <= probe.start_date + 6
        /\ (probe.ret + 6) % 7 = probe.target_weekday
        /\ (probe.start_date + 6) % 7 = probe.target_weekday
              => probe.ret = probe.start_date

\* C4 witness: a call whose start date already falls on the target weekday
\* (2025-01-28, a Tuesday) returned the start date.
C4_Witness ==
    /\ probe.op = "get_first_date_on_or_after"
    /\ probe.start_date = 739279
    /\ probe.target_weekday = 1
    /\ probe.ret = 739279

\* tok is a key of lab_mapping or begins with "L"
LabLike(tok) == tok \in DOMAIN lab_mapping \/ (tok # << >> /\ tok[1] = "L")

\* C5: the whole uppercased field, if a key of lab_mapping, is the lab key;
\* otherwise the first token that is a lab key or begins with "L" is; with
\* no such token the row is Theory.  "L1+L2" is Lab keyed "L1+L2", "A1+TA1"
\* is Theory with tokens "A1" and "TA1", "L99" is Lab keyed "L99".
C5_Classification ==
    probe.op = "classify" =>
        LET f == probe.slot_field
            toks == probe.tokens
            whole == upper(f)
        IN  /\ whole \in DOMAIN lab_mapping =>
                  probe.is_lab /\ probe.lab_key = whole
            /\ (whole \notin DOMAIN lab_mapping
                  /\ \E k \in 1..Len(toks) : LabLike(toks[k])) =>
                  /\ probe.is_lab
                  /\ \E k \in 1..Len(toks) :
                        /\ probe.lab_key = toks[k]
                        /\ LabLike(toks[k])
                        /\ \A j \in 1..(k - 1) : ~LabLike(toks[j])
            /\ (whole \notin DOMAIN lab_mapping
                  /\ \A k \in 1..Len(toks) : ~LabLike(toks[k])) =>
                  ~probe.is_lab
            /\ probe.raw = <<"L", "1", "+", "L", "2">> =>
                  probe.is_lab /\ probe.lab_key = <<"L", "1", "+", "L", "2">>
            /\ probe.raw = SlotTheory =>
                  ~probe.is_lab /\ toks = << <<"A", "1">>, <<"T", "A", "1">> >>
            /\ probe.raw = SlotLabUnknown =>
                  /\ probe.is_lab
                  /\ probe.lab_key = <<"L", "9", "9">>
                  /\ probe.lab_key \notin DOMAIN lab_mapping

\* C5 witness: the field "L1+L2" was classified Lab with the whole field
\* as its key.
C5_Witness ==
    /\ probe.op = "classify"
    /\ probe.raw = <<"L", "1", "+", "L", "2">>
    /\ probe.is_lab
    /\ probe.lab_key = <<"L", "1", "+", "L", "2">>

\* C6: every emitted event recurs weekly on the weekday of its triple, and
\* its rule carries an UNTIL part, the semester's end.
C6_RecurrenceBoundedBySemesterEnd ==
    \A k \in 1..Len(inserted) :
        LET e == inserted[k].body
        IN  \A n \in 1..Len(e.recurrence) :
                /\ e.recurrence[n].FREQ = "WEEKLY"
                /\ weekday_map[e.recurrence[n].BYDAY] = (e.start.dateTime.date + 6) % 7
                /\ "UNTIL" \in DOMAIN e.recurrence[n]

\* The exclusion windows of the semester configuration: 2025-02-24 to
\* 2025-03-03.
ExclusionWindows == { [first |-> 739306, last |-> 739313] }

\* C7: every emitted event carries, for every date of every exclusion
\* window, an exclusion date at the event's own start hour and minute.
C7_ExclusionDatesCarried ==
    \A k \in 1..Len(inserted) :
        LET e == inserted[k].body
        IN  \A w \in ExclusionWindows : \A d \in (w.first)..(w.last) :
                \E n \in 1..Len(e.recurrence) :
                    /\ "EXDATE" \in DOMAIN e.recurrence[n]
                    /\ [date |-> d, hour |-> e.start.dateTime.hour,
                        minute |-> e.start.dateTime.minute] \in e.recurrence[n].EXDATE

\* C8: a row whose course holds "EMBEDDED PROJECT" or whose venue holds
\* "NIL-ONL", in any case, emits no event, shows no warning (its slot is
\* not resolved) and no error, whatever its slot field is; a batch of such
\* rows returns True.
C8_MarkedRowsAreSkipped ==
    /\ \A j \in 1..Len(outcome) :
          HasSkipMarker(df[j]) =>
              /\ outcome[j] = "skipped"
              /\ BodiesOf(inserted, j - 1) = << >>
              /\ BodiesOf(warnings, j - 1) = << >>
              /\ BodiesOf(errors, j - 1) = << >>
    /\ (Returned /\ \A j \in 1..Len(df) : HasSkipMarker(df[j])) => result = "True"

\* C8 witness: the function returned after skipping a marked row with an
\* unknown slot, a marked row with a valid slot and a marked row with an
\* empty slot.
C8_Witness ==
    /\ Returned
    /\ \E j \in 1..Len(df) : HasSkipMarker(df[j]) /\ df[j].Slot = SlotLabUnknown
    /\ \E j \in 1..Len(df) : HasSkipMarker(df[j]) /\ df[j].Slot \in {SlotTheory, SlotEmpty}

\* C9: a slot code missing from the catalogs is a warning, not a failure.
\* The Lab row "L99" emits nothing, warns once and is no error; the Theory
\* row "Q7+TA1" warns for Q7 and still emits the one event of TA1
\* (Thursday 11:00); the only error of such rows is a failing insert, and
\* the batch iterates every row.
C9_ResolutionMissIsWarning ==
    /\ pc # "raised"
    /\ Returned => Len(outcome) = Len(df)
    /\ \A j \in 1..Len(outcome) :
          ~HasSkipMarker(df[j]) =>
              /\ df[j].Slot = SlotLabUnknown =>
                    /\ outcome[j] = "lab_miss"
                    /\ BodiesOf(inserted, j - 1) = << >>
                    /\ BodiesOf(warnings, j - 1) =
                          << [slot |-> "Lab", key |-> <<"L", "9", "9">>, idx |-> index[j]] >>
                    /\ BodiesOf(errors, j - 1) = << >>
              /\ df[j].Slot = SlotTheoryPartial =>
                    /\ BodiesOf(warnings, j - 1) =
                          << [slot |-> "Theory", key |-> <<"Q", "7">>, idx |-> index[j]] >>
                    /\ \A n \in 1..Len(BodiesOf(errors, j - 1)) :
                          BodiesOf(errors, j - 1)[n] = "HttpError"
                    /\ outcome[j] = "done" =>
                          /\ Len(BodiesOf(inserted, j - 1)) = 1
                          /\ BodiesOf(inserted, j - 1)[1].recurrence[1].BYDAY = "TH"
                          /\ BodiesOf(inserted, j - 1)[1].start.dateTime.hour = 11
                          /\ BodiesOf(inserted, j - 1)[1].start.dateTime.minute = 0

\* C9 witness: the function returned True after a Theory row with a
\* missing token and a Lab row with a missing key, in either order.
C9_Witness ==
    /\ Returned
    /\ result = "True"
    /\ \E j \in 1..Len(df) : outcome[j] = "done" /\ df[j].Slot = SlotTheoryPartial
    /\ \E j \in 1..Len(df) : outcome[j] = "lab_miss"

RECURSIVE SumTriples(_)
SumTriples(toks) ==
    IF toks = << >> THEN 0
    ELSE (IF Head(toks) \in DOMAIN theory_mapping
          THEN Len(theory_mapping[Head(toks)]) ELSE 0) + SumTriples(Tail(toks))

\* The number of (weekday, start, end) triples the slot field of a row
\* resolves to.
ResolvedTriples(row) ==
    LET c == Classify(strip(row.Slot))
    IN  IF c.is_lab
        THEN (IF c.lab_key \in DOMAIN lab_mapping THEN Len(lab_mapping[c.lab_key]) ELSE 0)
        ELSE SumTriples(slot_tokens(strip(row.Slot)))

\* C11: a row that is neither skipped nor failed emits one event per
\* resolved triple: "A1+TA1" three (two of A1, one of TA1), "l1+l2" one,
\* "TA1+TA1" two (the token counts twice), "Q7+TA1" one, and "L99", "Q7"
\* and the empty field none.
C11_OneEventPerResolvedTriple ==
    \A j \in 1..Len(outcome) :
        (~HasSkipMarker(df[j]) /\ outcome[j] \in {"done", "lab_miss"}) =>
            LET n == Len(BodiesOf(inserted, j - 1))
                slot == df[j].Slot
            IN  /\ n = ResolvedTriples(df[j])
                /\ slot = SlotTheory => n = 3
                /\ slot = SlotLab => n = 1
                /\ slot = SlotTheoryRepeated => n = 2
                /\ slot = SlotTheoryPartial => n = 1
                /\ slot \in {SlotLabUnknown, SlotTheoryUnknown, SlotEmpty} => n = 0

\* C11 witness: the row "TA1+TA1" was processed and emitted two events.
C11_Witness ==
    /\ Returned
    /\ Len(df) = 1
    /\ df[1].Slot = SlotTheoryRepeated
    /\ outcome = << "done" >>
    /\ Len(inserted) = 2

\* The hour and minute an HH:MM string of the catalogs denotes.
ClockOf(s) ==
    [hour |-> DigitVal(s[1]) * 10 + DigitVal(s[2]),
     minute |-> DigitVal(s[4]) * 10 + DigitVal(s[5])]

\* Whether an event is the one of a triple: its weekday and clock times.
IsEventOf(e, triple) ==
    /\ e.recurrence[1].BYDAY = triple[1]
    /\ e.start.dateTime.hour = ClockOf(triple[2]).hour
    /\ e.start.dateTime.minute = ClockOf(triple[2]).minute
    /\ e.end.dateTime.hour = ClockOf(triple[3]).hour
    /\ e.end.dateTime.minute = ClockOf(triple[3]).minute

AllTriples ==
    UNION { { theory_mapping[key][n] : n \in 1..Len(theory_mapping[key]) } :
                key \in DOMAIN theory_mapping }
    \cup
    UNION { { lab_mapping[key][n] : n \in 1..Len(lab_mapping[key]) } :
                key \in DOMAIN lab_mapping }

\* C12: every emitted event starts and ends on one date, the only date of
\* the seven from the semester start on that falls on the weekday of its
\* BYDAY, with the clock times of a catalog triple of that weekday.  The
\* row "A1+TA1" from Monday 2025-01-27 gives Tuesday 2025-01-28 09:00-09:50
\* first, then Saturday 2025-02-01 and Thursday 2025-01-30.
C12_FirstOccurrence ==
    /\ \A k \in 1..Len(inserted) :
          LET e == inserted[k].body
          IN  /\ e.start.dateTime.date = e.end.dateTime.date
              /\ e.start.dateTime.date \in semester_start_date..(semester_start_date + 6)
              /\ (e.start.dateTime.date + 6) % 7 = weekday_map[e.recurrence[1].BYDAY]
              /\ Len(e.recurrence) = 1
              /\ \E triple \in AllTriples : IsEventOf(e, triple)
    /\ \A j \in 1..Len(outcome) :
          (outcome[j] = "done" /\ df[j].Slot = SlotTheory /\ semester_start_date = 739278) =>
              LET ev == BodiesOf(inserted, j - 1)
              IN  /\ Len(ev) = 3
                  /\ IsEventOf(ev[1], << "TU", <<"0","9",":","0","0">>, <<"0","9",":","5","0">> >>)
                  /\ ev[1].start.dateTime.date = 739279
                  /\ ev[2].start.dateTime.date = 739283
                  /\ ev[3].start.dateTime.date = 739281

\* C12 witness: from Monday 2025-01-27 a Tuesday 09:00 event was emitted
\* on 2025-01-28.
C12_Witness ==
    /\ semester_start_date = 739278
    /\ \E k \in 1..Len(inserted) :
          /\ inserted[k].body.recurrence[1].BYDAY = "TU"
          /\ inserted[k].body.start.dateTime.hour = 9
          /\ inserted[k].body.start.dateTime.date = 739279

\* C14: every event of a row carries the summary "<Course> [<SlotField>]"
\* of the trimmed Course and the trimmed slot field as written (the row
\* " CSE1001 " / "l1+l2" gives "CSE1001 [l1+l2]"), the trimmed Venue as
\* location and the trimmed Faculty Details as description, so all events
\* of one row agree on the three.
C14_SummaryLocationDescription ==
    \A k \in 1..Len(inserted) :
        LET row == df[inserted[k].row + 1]
            e   == inserted[k].body
        IN  /\ e.summary = strip(row.Course) \o <<" ", "[">> \o strip(row.Slot) \o <<"]">>
            /\ e.location = strip(row.Venue)
            /\ e.description = strip(row.Faculty)
            /\ (row.Course = CourseA /\ row.Slot = SlotLab) =>
                  e.summary = <<"C","S","E","1","0","0","1"," ","[","l","1","+","l","2","]">>
            /\ (row.Course = CourseA /\ row.Slot = SlotTheory) =>
                  e.summary = <<"C","S","E","1","0","0","1"," ","[","A","1","+","T","A","1","]">>
            /\ row.Venue = VenueA => e.location = <<"G","0","1">>
            /\ e.description = <<"D","R"," ","R","A","O">>
            /\ \A l \in 1..Len(inserted) :
                  inserted[l].row = inserted[k].row =>
                      /\ inserted[l].body.summary = e.summary
                      /\ inserted[l].body.location = e.location
                      /\ inserted[l].body.description = e.description

\* C14 witness: a returned call that emitted the three events of a row
\* "A1+TA1" and the event of a row "l1+l2".
C14_Witness ==
    /\ Returned
    /\ Len(df) = 2
    /\ df[1].Slot = SlotTheory /\ df[1].Course = CourseA
    /\ df[2].Slot = SlotLab
    /\ Len(BodiesOf(inserted, 0)) = 3
    /\ Len(BodiesOf(inserted, 1)) = 1

\* C15: every event of a batch carries default reminders off and one popup
\* override per configured offset, in the configured order: the offsets
\* 10, 5, 5 give popup 10, popup 5, popup 5 on lab and theory events alike,
\* and no offsets give no override.
C15_UniformReminders ==
    \A k \in 1..Len(inserted) :
        LET r == inserted[k].body.reminders
        IN  /\ r.useDefault = FALSE
            /\ Len(r.overrides) = Len(notifications)
            /\ \A n \in 1..Len(notifications) :
                  r.overrides[n] = [method |-> "popup", minutes |-> notifications[n]]
            /\ notifications = <<10, 5, 5>> =>
                  r.overrides = << [method |-> "popup", minutes |-> 10],
                                   [method |-> "popup", minutes |-> 5],
                                   [method |-> "popup", minutes |-> 5] >>
            /\ notifications = << >> => r.overrides = << >>
            /\ \A l \in 1..Len(inserted) : inserted[l].body.reminders = r

\* C15 witness: a batch with offsets 10, 5, 5 that emitted a theory event
\* and a lab event.
C15_Witness ==
    /\ notifications = <<10, 5, 5>>
    /\ Len(df) = 2
    /\ df[1].Slot = SlotLab /\ df[2].Slot = SlotTheory
    /\ BodiesOf(inserted, 0) # << >>
    /\ BodiesOf(inserted, 1) # << >>

DaysOf(bodies) == [k \in 1..Len(bodies) |-> bodies[k].recurrence[1].BYDAY]

RECURSIVE ExpectedDays(_)
ExpectedDays(toks) ==
    IF toks = << >> THEN << >>
    ELSE (IF Head(toks) \in DOMAIN theory_mapping
          THEN [k \in 1..Len(theory_mapping[Head(toks)]) |-> theory_mapping[Head(toks)][k][1]]
          ELSE << >>)
         \o ExpectedDays(Tail(toks))

\* C16: events are emitted in input order: the events of an earlier row
\* all come before those of a later row, and the events of a theory row
\* follow its tokens in order and, within a token, the catalog's triples in
\* order (the row "A1+TA1" gives Tuesday, Saturday, Thursday).
C16_EmittedInInputOrder ==
    /\ \A k, l \in 1..Len(inserted) : k < l => inserted[k].row <= inserted[l].row
    /\ \A j \in 1..Len(outcome) :
          LET days == DaysOf(BodiesOf(inserted, j - 1))
          IN  /\ ~Classify(strip(df[j].Slot)).is_lab =>
                    IsPrefix(days, ExpectedDays(slot_tokens(strip(df[j].Slot))))
              /\ (df[j].Slot = SlotTheory /\ outcome[j] = "done" /\ ~HasSkipMarker(df[j])) =>
                    days = <<"TU", "SA", "TH">>
              /\ (df[j].Slot = SlotTheoryPartial /\ outcome[j] = "done") =>
                    days = <<"TH">>

\* C16 witness: a returned call over two rows "A1+TA1" that emitted the
\* three events of the first and then the three of the second.
C16_Witness ==
    /\ Returned
    /\ Len(df) = 2
    /\ df[1].Slot = SlotTheory /\ df[2].Slot = SlotTheory
    /\ Len(BodiesOf(inserted, 0)) = 3
    /\ Len(BodiesOf(inserted, 1)) = 3

MinuteOfDay(s) == ClockOf(s).hour * 60 + ClockOf(s).minute

\* A catalog triple is well formed: a weekday code of weekday_map, two
\* "HH:MM" times of the day, the start strictly before the end.
TripleWellFormed(triple) ==
    /\ triple[1] \in DOMAIN weekday_map
    /\ \A s \in {triple[2], triple[3]} :
          /\ Len(s) = 5 /\ s[3] = ":"
          /\ \A p \in {1, 2, 4, 5} : IsDigit(s[p])
          /\ ClockOf(s).hour \in 0..23 /\ ClockOf(s).minute \in 0..59
    /\ MinuteOfDay(triple[2]) < MinuteOfDay(triple[3])

CatalogWellFormed(m) ==
    \A key \in DOMAIN m : \A k \in 1..Len(m[key]) : TripleWellFormed(m[key][k])

TheoryMappingWellFormed == CatalogWellFormed(theory_mapping)

LabMappingWellFormed == CatalogWellFormed(lab_mapping)

\* C18: every triple of both catalogs has a weekday code of weekday_map and
\* a start time strictly before its end time, every emitted event starts
\* strictly before it ends on the same day, and the catalogs a run reads
\* are the catalogs as defined, at every step of the run.
C18_CatalogsWellFormedAndFixed ==
    /\ TheoryMappingWellFormed
    /\ LabMappingWellFormed
    /\ Len(theory_mapping[<<"A", "1">>]) = 2
    /\ TheoryCatalog = theory_mapping
    /\ LabCatalog = lab_mapping
    /\ catalogs = "source"
    /\ \A k \in 1..Len(inserted) :
          LET s == inserted[k].body.start.dateTime
              e == inserted[k].body.end.dateTime
          IN  /\ s.date = e.date
              /\ s.hour * 60 + s.minute < e.hour * 60 + e.minute

\* C18 witness: a returned call over the lab row "l1+l2" that emitted its
\* event, read from the lab catalog.
C18_Witness ==
    /\ Returned
    /\ Len(df) = 1
    /\ df[1].Slot = SlotLab
    /\ Len(inserted) = 1
    /\ inserted[1].body.start.dateTime.hour * 60 + inserted[1].body.start.dateTime.minute
          < inserted[1].body.end.dateTime.hour * 60 + inserted[1].body.end.dateTime.minute

\* C17: the notification offsets the wizard stores at step 4, and passes
\* to create_calendar_events at step 5, are at most three values, each at
\* least 1 and at most 1440: an entered 0 is left out, so that every
\* reminder of an inserted event has 1 to 1440 minutes.
C17_StoredOffsetsPositive ==
    /\ Len(session.notification_times) \in 0..3
    /\ \A k \in 1..Len(session.notification_times) :
          session.notification_times[k] \in 1..1440
    /\ (session.step = 5) <=> ("notification_times" \in session.has)
    /\ pc # "idle" => notifications = session.notification_times
    /\ \A k \in 1..Len(inserted) :
          LET o == inserted[k].body.reminders.overrides
          IN  /\ Len(o) = Len(session.notification_times)
              /\ \A n \in 1..Len(o) :
                    /\ o[n].minutes = session.notification_times[n]
                    /\ o[n].minutes >= 1

\* C17 witness: the form was submitted with 10, 0 and 1440, and the batch
\* that was given the list 10, 1440 inserted an event and returned.
C17_Witness ==
    /\ session.step = 5
    /\ session.notification_times = <<10, 1440>>
    /\ pc = "returned"
    /\ notifications = <<10, 1440>>
    /\ inserted # << >>

\* One change of the step: from no step to 1, or from a step to the next,
\* the change from 1 to 2 only with a token and a timetable in the session.
StepChange ==
    LET a == session.step
        b == session'.step
    IN  /\ b \in 1..5
        /\ \/ b = a
           \/ a = 0 /\ b = 1
           \/ a \in 1..4 /\ b = a + 1
        /\ (a = 1 /\ b = 2) =>
              /\ "google_token" \in session'.has
              /\ session'.google_token # "absent"
              /\ "df" \in session'.has
        /\ b > 1 => "df" \in session'.has

\* C19: over any sequence of script runs and button clicks the step is set
\* to 1 first and then only moves from a step to the next one, up to 5: it
\* never decreases and never skips a step, and it moves from 1 to 2 only
\* when the session holds a Google token and a timetable.
C19_StepOnlyAdvancesByOne == [][session' # session => StepChange]_vars

\* C19 witness: the wizard has gone through the steps to step 5, with the
\* values of every step in the session.
C19_Witness ==
    /\ session.step = 5
    /\ {"step", "df", "semester_start", "timezone", "notification_times"} \subseteq session.has
    /\ session.semester_start = 739280
    /\ session.timezone = "UTC"

\* C20: an event is inserted only by a call that has a service and a
\* calendar id, and in the wizard only at step 5, where the function is
\* called with both; a call without a service or without a calendar id
\* returns False with no event inserted, no row iterated and no progress
\* reported.
C20_InsertionGated ==
    /\ inserted # << >> =>
          /\ service /\ calendar_id
          /\ session.step \in {0, 5}
    /\ ("step" \in session.has /\ pc # "idle") =>
          /\ session.step = 5
          /\ service /\ calendar_id
    /\ (pc # "ready" /\ pc # "idle" /\ ~(service /\ calendar_id)) =>
          /\ pc = "returned"
          /\ result = "False"
          /\ inserted = << >>
          /\ outcome = << >>
          /\ i = 0
          /\ progress = << >>
          /\ warnings = << >>
          /\ errors = << >>

\* C20 witness: the wizard at step 5 has called the function, which
\* inserted an event.
C20_Witness ==
    /\ session.step = 5
    /\ pc \in {"loop", "returned"}
    /\ service /\ calendar_id
    /\ inserted # << >>

LastBatch == probe.op = "batch"

\* "Create Events Now" clicked again with the rows of the last batch.
Resubmit == RunStep5 /\ pc' = "ready" /\ df' = probe.df

\* The end of the script run of a batch: a result of True removes the
\* token, a result of False leaves the session as it is, token included.
TokenAfterBatch ==
    (pc = "returned" /\ pc' = "idle") =>
        /\ "google_token" \in session.has
        /\ result \in {"True", "False"}
        /\ result = "True" =>
              /\ "google_token" \notin session'.has
              /\ session'.google_token = "absent"
        /\ result = "False" =>
              /\ session' = session
              /\ Usable(session'.google_token)

\* After a batch that returned True the session has no token until one is
\* obtained by a new exchange, and a further batch runs only after that;
\* after a batch that returned False the token in place lets the same
\* rows be submitted again.
TokenGatesNextBatch ==
    /\ (LastBatch /\ probe.result = "True" /\ ~probe.reauth) =>
          /\ "google_token" \notin session.has
          /\ pc = "idle"
    /\ (LastBatch /\ probe.result = "True" /\ pc # "idle") => probe.reauth
    /\ (pc # "idle" /\ "step" \in session.has) => Usable(session.google_token)
    /\ (LastBatch /\ probe.result = "False" /\ pc = "idle"
          /\ Usable(session.google_token)) =>
          /\ session.df = probe.df
          /\ ENABLED Resubmit

\* C21: at step 5 the stored Google token is deleted after a batch that
\* returned True and left in place after a batch that returned False:
\* after a batch that returned True no further batch runs in the session
\* unless a token is obtained anew, and after a batch that returned False
\* the same rows can be submitted again.
C21_TokenLifecycle == []TokenGatesNextBatch /\ [][TokenAfterBatch]_vars

\* C21 witness: after a batch that returned False, the same rows were
\* submitted again with the token left in place, and an event was inserted.
C21_Witness ==
    /\ LastBatch
    /\ probe.result = "False"
    /\ ~probe.reauth
    /\ pc \in {"loop", "returned"}
    /\ df = probe.df
    /\ Usable(session.google_token)
    /\ inserted # << >>

====
